---- MODULE Spec2Model ----
(***************************************************************************)
(* Model of cloudmanic/spotify-shortcut: the playlist identifier resolver, *)
(* the device selection and the play / pause commands, as state machines   *)
(* whose steps are the remote calls the Go code issues.                    *)
(*                                                                         *)
(* A Go string is modelled as the sequence of its bytes, each byte a       *)
(* one-character TLA+ string; len(s) is Len(s).                            *)
(***************************************************************************)
EXTENDS Integers, Sequences, FiniteSets, TLC

VARIABLES
    op,             \* the operation under way: which entry point was called
    pc,             \* position inside that operation
    input,          \* playlistInput / input: the playlist string given by the caller
    collection,     \* remote state: the user's playlists, in the order the service lists them
    offset,         \* the resolver's paging offset
    calls,          \* every remote call issued so far, in order
    out,            \* narration written to stdout by the resolver
    resolved,       \* what the resolver returned: [id, err]
    spotifyClient,  \* the process-wide session handle ("nil" when none)
    devices,        \* remote state: the device list PlayerDevices returns
    deviceName,     \* the device hint
    shuffle,        \* the shuffle flag
    targetDevice,   \* index into devices of the selected device, 0 for nil
    playlist,       \* metadata returned by GetPlaylist: [Name, Total]
    randomOffset,   \* the offset drawn by rand.Intn
    result,         \* what the operation returned: [status, value]
    request,        \* the HTTP request being handled
    response,       \* the HTTP response written for it
    apiAccessToken, \* the configured API access token
    file,           \* the content of the credential file
    live,           \* the credential held by the session's OAuth client
    flags,          \* the command-line flags and environment of the invocation
    client,         \* the client argument of the resolver and of the command-line handlers
    concurrent      \* the /callback handlers running beside the request in hand

\* the state of the process around play and pause: HTTP exchange, credentials, flags
hostvars == <<request, response, apiAccessToken, file, live, flags>>

vars == <<op, pc, input, collection, offset, calls, out, resolved, spotifyClient,
          devices, deviceName, shuffle, targetDevice, playlist, randomOffset, result,
          request, response, apiAccessToken, file, live, flags, client, concurrent>>

\* the variables of concurrent request handling
racevars == <<client, concurrent>>

----------------------------------------------------------------------------
(* Bounds of the model *)

MaxPieces == 3      \* an input is the concatenation of at most this many pieces
MaxBlocks == 3      \* a collection is the concatenation of at most this many blocks
MaxDevices == 2     \* the device list has at most this many devices
MaxTracks == 3      \* a playlist has at most this many tracks
MaxExpiry == 2      \* a token is refreshed while its expiry is below this instant
MaxSaves == 2       \* the token is saved at most this many times in a row
MaxOthers == 1      \* /callback requests handled beside the request in hand

----------------------------------------------------------------------------
(* Strings *)

Min(S) == CHOOSE x \in S : \A y \in S : x <= y

\* "spotify.com/playlist/"
Marker ==
    <<"s","p","o","t","i","f","y",".","c","o","m","/","p","l","a","y","l","i","s","t","/">>

\* "/playlist/"
Sep == <<"/","p","l","a","y","l","i","s","t","/">>

Question == <<"?">>

Space == <<" ">>

\* the length the bare-ID heuristic tests for
IDLen == 22

\* the page size of the name search
PageLimit == 50

\* sub occurs in s at (1-based) position i
MatchAt(s, sub, i) ==
    /\ i + Len(sub) - 1 <= Len(s)
    /\ \A k \in 1..Len(sub) : s[i + k - 1] = sub[k]

\* strings.Index, 1-based, 0 when sub does not occur
Index(s, sub) ==
    LET hits == {i \in 1..Len(s) : MatchAt(s, sub, i)}
    IN  IF hits = {} THEN 0 ELSE Min(hits)

\* strings.Contains for a non-empty sub
Contains(s, sub) == Index(s, sub) > 0

\* the part of s from position i on
From(s, i) == SubSeq(s, i, Len(s))

\* strings.Split for a non-empty sep: cut at every non-overlapping occurrence, left to right
RECURSIVE Split(_, _)
Split(s, sep) ==
    LET i == Index(s, sep)
    IN  IF i = 0 THEN <<s>>
        ELSE <<SubSeq(s, 1, i - 1)>> \o Split(From(s, i + Len(sep)), sep)

Upper == <<"A","B","C","D","E","F","G","H","I","J","K","L","M",
           "N","O","P","Q","R","S","T","U","V","W","X","Y","Z">>
Lower == <<"a","b","c","d","e","f","g","h","i","j","k","l","m",
           "n","o","p","q","r","s","t","u","v","w","x","y","z">>

\* simple case folding of one ASCII byte
Fold(c) ==
    IF \E k \in 1..26 : Upper[k] = c
    THEN Lower[CHOOSE k \in 1..26 : Upper[k] = c]
    ELSE c

\* strings.EqualFold on ASCII strings
EqualFold(s, t) ==
    /\ Len(s) = Len(t)
    /\ \A k \in 1..Len(s) : Fold(s[k]) = Fold(t[k])

----------------------------------------------------------------------------
(* The playlist identifier resolver: pure parts *)

\* ExtractPlaylistID: the ID inside a playlist link, or the input as it is
ExtractPlaylistID_KeepQuery(in) ==
    IF Contains(in, Marker)
    THEN LET parts == Split(in, Sep)
         IN  IF Len(parts) > 1 THEN parts[2] ELSE in
    ELSE in
ExtractPlaylistID(in) ==
    IF Contains(in, Marker)
    THEN LET parts == Split(in, Sep)
         IN  IF Len(parts) > 1 THEN Split(parts[2], Question)[1] ELSE in
    ELSE in

\* the test of the bare-ID heuristic
LooksLikeID_WithSpace(in) == Len(in) = IDLen /\ Contains(in, Space)
LooksLikeID(in) == Len(in) = IDLen /\ ~Contains(in, Space)

\* the remote service's answer to CurrentUsersPlaylists(Limit(limit), Offset(off))
PlaylistPage(limit, off) ==
    SubSeq(collection, off + 1, IF off + limit < Len(collection) THEN off + limit ELSE Len(collection))

\* the test the loop body applies to one entry
EntryMatches(e, in) == EqualFold(e.Name, in) \/ e.ID = in

\* what the loop body returns for a matching entry
EntryResult(e, in) == IF EqualFold(e.Name, in) THEN e.ID ELSE in

\* position in the page of the entry at which the range loop returns, 0 when it runs to the end
ScanPage_Last(page, in) ==
    LET hits == {k \in 1..Len(page) : EqualFold(page[k].Name, in) \/ page[k].ID = in}
    IN  IF hits = {} THEN 0 ELSE CHOOSE x \in hits : \A y \in hits : x >= y
ScanPage(page, in) ==
    LET hits == {k \in 1..Len(page) : EntryMatches(page[k], in)}
    IN  IF hits = {} THEN 0 ELSE Min(hits)

NoError == "nil"

\* a remote call as it is logged: the operation, its arguments, whether it succeeded, and
\* the session handle it is issued on
PlaylistsCall(limit, off, ok) ==
    [op |-> "CurrentUsersPlaylists", arg |-> <<limit, off>>, ok |-> ok, client |-> client]

\* the test that ends the paging loop after a page
ShortPage_BreakOnFull(page, limit) == Len(page) <= limit
ShortPage(page, limit) == Len(page) < limit

Narrating(o) == o \in {"ResolvePlaylistID", "handlePlayPlaylist"}
Quiet(o) == o \in {"ResolvePlaylistIDQuiet", "PlayPlaylist"}

----------------------------------------------------------------------------
(* The resolver: steps.  One step per remote page fetch; the scan of the    *)
(* fetched page belongs to the step that fetched it.                        *)

\* ResolvePlaylistIDQuiet up to the loop: link form, bare-ID heuristic, else start paging
ResolvePlaylistIDQuietEnter ==
    /\ pc = "resolve" /\ Quiet(op)
    /\ IF Contains(input, Marker)
       THEN /\ resolved' = [id |-> ExtractPlaylistID(input), err |-> NoError]
            /\ pc' = "resolved"
            /\ UNCHANGED offset
       ELSE IF LooksLikeID(input)
       THEN /\ resolved' = [id |-> input, err |-> NoError]
            /\ pc' = "resolved"
            /\ UNCHANGED offset
       ELSE /\ offset' = 0
            /\ pc' = "page"
            /\ UNCHANGED resolved
    /\ UNCHANGED hostvars
    /\ UNCHANGED <<op, input, collection, calls, out, spotifyClient, devices, deviceName,
                   shuffle, targetDevice, playlist, randomOffset, result>>
    /\ client' = spotifyClient /\ UNCHANGED concurrent

\* one iteration of the loop of ResolvePlaylistIDQuiet whose fetch succeeds
ResolvePlaylistIDQuietPage_Stride ==
    /\ pc = "page" /\ Quiet(op)
    /\ calls' = Append(calls, PlaylistsCall(PageLimit, offset, TRUE))
    /\ LET page == PlaylistPage(PageLimit, offset)
           k == ScanPage(page, input)
       IN  IF k > 0
           THEN /\ resolved' = [id |-> EntryResult(page[k], input), err |-> NoError]
                /\ pc' = "resolved"
                /\ UNCHANGED offset
           ELSE IF ShortPage(page, PageLimit)
           THEN /\ resolved' = [id |-> input, err |-> NoError]
                /\ pc' = "resolved"
                /\ UNCHANGED offset
           ELSE /\ offset' = offset + PageLimit - 1
                /\ UNCHANGED <<pc, resolved>>
    /\ UNCHANGED hostvars
    /\ UNCHANGED <<op, input, collection, out, spotifyClient, devices, deviceName,
                   shuffle, targetDevice, playlist, randomOffset, result>>
    /\ UNCHANGED racevars
ResolvePlaylistIDQuietPage ==
    /\ pc = "page" /\ Quiet(op)
    /\ calls' = Append(calls, PlaylistsCall(PageLimit, offset, TRUE))
    /\ LET page == PlaylistPage(PageLimit, offset)
           k == ScanPage(page, input)
       IN  IF k > 0
           THEN /\ resolved' = [id |-> EntryResult(page[k], input), err |-> NoError]
                /\ pc' = "resolved"
                /\ UNCHANGED offset
           ELSE IF ShortPage(page, PageLimit)
           THEN /\ resolved' = [id |-> input, err |-> NoError]
                /\ pc' = "resolved"
                /\ UNCHANGED offset
           ELSE /\ offset' = offset + PageLimit
                /\ UNCHANGED <<pc, resolved>>
    /\ UNCHANGED hostvars
    /\ UNCHANGED <<op, input, collection, out, spotifyClient, devices, deviceName,
                   shuffle, targetDevice, playlist, randomOffset, result>>
    /\ UNCHANGED racevars

\* one iteration of the loop of ResolvePlaylistIDQuiet whose fetch fails
ResolvePlaylistIDQuietPageErr_Fallback ==
    /\ pc = "page" /\ Quiet(op)
    /\ calls' = Append(calls, PlaylistsCall(PageLimit, offset, FALSE))
    /\ resolved' = [id |-> input, err |-> NoError]
    /\ pc' = "resolved"
    /\ UNCHANGED hostvars
    /\ UNCHANGED <<op, input, collection, offset, out, spotifyClient, devices, deviceName,
                   shuffle, targetDevice, playlist, randomOffset, result>>
    /\ UNCHANGED racevars
ResolvePlaylistIDQuietPageErr ==
    /\ pc = "page" /\ Quiet(op)
    /\ calls' = Append(calls, PlaylistsCall(PageLimit, offset, FALSE))
    /\ resolved' = [id |-> <<>>, err |-> "failed to get playlists"]
    /\ pc' = "resolved"
    /\ UNCHANGED hostvars
    /\ UNCHANGED <<op, input, collection, offset, out, spotifyClient, devices, deviceName,
                   shuffle, targetDevice, playlist, randomOffset, result>>
    /\ UNCHANGED racevars

\* ResolvePlaylistID up to the loop; it announces the search on stdout
ResolvePlaylistIDEnter ==
    /\ pc = "resolve" /\ Narrating(op)
    /\ IF Contains(input, Marker)
       THEN /\ resolved' = [id |-> ExtractPlaylistID(input), err |-> NoError]
            /\ pc' = "resolved"
            /\ UNCHANGED <<offset, out>>
       ELSE IF LooksLikeID(input)
       THEN /\ resolved' = [id |-> input, err |-> NoError]
            /\ pc' = "resolved"
            /\ UNCHANGED <<offset, out>>
       ELSE /\ out' = Append(out, <<"Searching for playlist", input>>)
            /\ offset' = 0
            /\ pc' = "page"
            /\ UNCHANGED resolved
    /\ UNCHANGED hostvars
    /\ UNCHANGED <<op, input, collection, calls, spotifyClient, devices, deviceName,
                   shuffle, targetDevice, playlist, randomOffset, result>>
    /\ client' = spotifyClient /\ UNCHANGED concurrent

\* one iteration of the loop of ResolvePlaylistID whose fetch succeeds
ResolvePlaylistIDPage ==
    /\ pc = "page" /\ Narrating(op)
    /\ calls' = Append(calls, PlaylistsCall(PageLimit, offset, TRUE))
    /\ LET page == PlaylistPage(PageLimit, offset)
           k == ScanPage(page, input)
       IN  IF k > 0
           THEN /\ resolved' = [id |-> EntryResult(page[k], input), err |-> NoError]
                /\ out' = IF EqualFold(page[k].Name, input)
                          THEN Append(out, <<"Found playlist", page[k].Name, page[k].ID>>)
                          ELSE out
                /\ pc' = "resolved"
                /\ UNCHANGED offset
           ELSE IF ShortPage(page, PageLimit)
           THEN /\ resolved' = [id |-> input, err |-> NoError]
                /\ out' = Append(out, <<"No playlist found with name", input>>)
                /\ pc' = "resolved"
                /\ UNCHANGED offset
           ELSE /\ offset' = offset + PageLimit
                /\ UNCHANGED <<pc, resolved, out>>
    /\ UNCHANGED hostvars
    /\ UNCHANGED <<op, input, collection, spotifyClient, devices, deviceName,
                   shuffle, targetDevice, playlist, randomOffset, result>>
    /\ UNCHANGED racevars

\* one iteration of the loop of ResolvePlaylistID whose fetch fails
ResolvePlaylistIDPageErr_Fallback ==
    /\ pc = "page" /\ Narrating(op)
    /\ calls' = Append(calls, PlaylistsCall(PageLimit, offset, FALSE))
    /\ resolved' = [id |-> input, err |-> NoError]
    /\ out' = Append(out, <<"No playlist found with name", input>>)
    /\ pc' = "resolved"
    /\ UNCHANGED hostvars
    /\ UNCHANGED <<op, input, collection, offset, spotifyClient, devices, deviceName,
                   shuffle, targetDevice, playlist, randomOffset, result>>
    /\ UNCHANGED racevars
ResolvePlaylistIDPageErr ==
    /\ pc = "page" /\ Narrating(op)
    /\ calls' = Append(calls, PlaylistsCall(PageLimit, offset, FALSE))
    /\ resolved' = [id |-> <<>>, err |-> "failed to get playlists"]
    /\ pc' = "resolved"
    /\ UNCHANGED hostvars
    /\ UNCHANGED <<op, input, collection, offset, out, spotifyClient, devices, deviceName,
                   shuffle, targetDevice, playlist, randomOffset, result>>
    /\ UNCHANGED racevars

----------------------------------------------------------------------------
(* Device selection *)

\* the test of the hint loop
HintMatches(d, hint) == hint # "" /\ (d.Name = hint \/ d.ID = hint)

\* index of the first active device, 0 when none is active
FirstActive(devs) ==
    LET act == {i \in 1..Len(devs) : devs[i].Active}
    IN  IF act = {} THEN 0 ELSE Min(act)

\* PlayPlaylist's selection: the hint loop leaves at its first match
SelectDevice_IgnoreActive(devs, hint) ==
    LET hit == {i \in 1..Len(devs) : HintMatches(devs[i], hint)}
    IN  IF hit # {} THEN Min(hit) ELSE 1
SelectDevice(devs, hint) ==
    LET hit == {i \in 1..Len(devs) : HintMatches(devs[i], hint)}
    IN  IF hit # {} THEN Min(hit)
        ELSE IF FirstActive(devs) # 0 THEN FirstActive(devs)
        ELSE 1

\* handlePlayPlaylist's selection: the hint loop runs over the whole list and keeps
\* overwriting targetDevice, so its last match stays
SelectDeviceCLI(devs, hint) ==
    LET hit == {i \in 1..Len(devs) : HintMatches(devs[i], hint)}
    IN  IF hit # {} THEN CHOOSE i \in hit : \A j \in hit : j <= i
        ELSE IF FirstActive(devs) # 0 THEN FirstActive(devs)
        ELSE 1

\* the emptiness test on the fetched device list
NoDevices_Never(devs) == FALSE
NoDevices(devs) == Len(devs) = 0

----------------------------------------------------------------------------
(* Remote calls and results of play and pause *)

DevicesCall(ok) == [op |-> "PlayerDevices", arg |-> <<>>, ok |-> ok, client |-> spotifyClient]
GetPlaylistCall_Captured(id, ok) ==
    [op |-> "GetPlaylist", arg |-> <<id>>, ok |-> ok, client |-> client]
GetPlaylistCall(id, ok) ==
    [op |-> "GetPlaylist", arg |-> <<id>>, ok |-> ok, client |-> spotifyClient]
PlayOptCall(dev, id, pos, ok) ==
    [op |-> "PlayOpt",
     arg |-> [DeviceID |-> dev, PlaybackContext |-> <<"spotify:playlist:", id>>, Position |-> pos],
     ok |-> ok, client |-> spotifyClient]
ShuffleCall(v, ok) == [op |-> "Shuffle", arg |-> <<v>>, ok |-> ok, client |-> spotifyClient]
PauseCall(ok) == [op |-> "Pause", arg |-> <<>>, ok |-> ok, client |-> spotifyClient]

\* spotifyClient is an interface value of two words; while the first client is being
\* stored over nil a reader can find the type word set and the data word still nil
Torn == "torn"

NotAuthenticated == "Spotify not authenticated. Visit /auth to authenticate"

Error(msg) == [status |-> "error", value |-> msg]
Fatal(msg) == [status |-> "fatal", value |-> msg]
Success(msg) == [status |-> "ok", value |-> msg]

\* the outcomes of rand.Intn(n) for n > 0
Intn_Inclusive(n) == 0..n
Intn(n) == 0..(n - 1)

\* the status message of a shuffled start
ShuffleMessage(name, dev, off, total) ==
    <<"Now playing", name, "on", dev, "shuffle enabled, starting at track", off + 1, "of", total>>

\* the status message of a start from the top
PlainMessage(name, dev) == <<"Now playing", name, "on", dev, "starting at track 1">>

\* what the remote service may answer to GetPlaylist
Playlists == [Name : {"Mix"}, Total : 0..MaxTracks]

----------------------------------------------------------------------------
(* PlayPlaylist and PausePlayback (package spotify): one step per remote call *)

\* PlayPlaylist without a session handle
PlayPlaylistNoClient ==
    /\ op = "PlayPlaylist" /\ pc = "play"
    /\ spotifyClient = "nil"
    /\ result' = Error(NotAuthenticated)
    /\ pc' = "done"
    /\ UNCHANGED hostvars
    /\ UNCHANGED <<op, input, collection, offset, calls, out, resolved, spotifyClient, devices,
                   deviceName, shuffle, targetDevice, playlist, randomOffset>>
    /\ UNCHANGED racevars

\* the device list is fetched; an empty list ends the call, otherwise the target is selected
PlayPlaylistDevices_NoFetch ==
    /\ op = "PlayPlaylist" /\ pc = "play"
    /\ spotifyClient \notin {"nil", Torn}
    /\ IF NoDevices(devices)
       THEN /\ result' = Error("no Spotify Connect devices found")
            /\ pc' = "done"
            /\ UNCHANGED targetDevice
       ELSE /\ targetDevice' = SelectDevice(devices, deviceName)
            /\ pc' = "resolve"
            /\ UNCHANGED result
    /\ UNCHANGED hostvars
    /\ UNCHANGED <<op, input, collection, offset, calls, out, resolved, spotifyClient, devices,
                   deviceName, shuffle, playlist, randomOffset>>
    /\ UNCHANGED racevars
PlayPlaylistDevices ==
    /\ op = "PlayPlaylist" /\ pc = "play"
    /\ spotifyClient \notin {"nil", Torn}
    /\ calls' = Append(calls, DevicesCall(TRUE))
    /\ IF NoDevices(devices)
       THEN /\ result' = Error("no Spotify Connect devices found")
            /\ pc' = "done"
            /\ UNCHANGED targetDevice
       ELSE /\ targetDevice' = SelectDevice(devices, deviceName)
            /\ pc' = "resolve"
            /\ UNCHANGED result
    /\ UNCHANGED hostvars
    /\ UNCHANGED <<op, input, collection, offset, out, resolved, spotifyClient, devices,
                   deviceName, shuffle, playlist, randomOffset>>
    /\ UNCHANGED racevars

\* the device list fetch fails
PlayPlaylistDevicesErr ==
    /\ op = "PlayPlaylist" /\ pc = "play"
    /\ spotifyClient \notin {"nil", Torn}
    /\ calls' = Append(calls, DevicesCall(FALSE))
    /\ result' = Error("failed to get devices")
    /\ pc' = "done"
    /\ UNCHANGED hostvars
    /\ UNCHANGED <<op, input, collection, offset, out, resolved, spotifyClient, devices,
                   deviceName, shuffle, targetDevice, playlist, randomOffset>>
    /\ UNCHANGED racevars

\* the resolver returned an error
PlayPlaylistResolveErr ==
    /\ op = "PlayPlaylist" /\ pc = "resolved"
    /\ resolved.err # NoError
    /\ result' = Error("failed to resolve playlist")
    /\ pc' = "done"
    /\ UNCHANGED hostvars
    /\ UNCHANGED <<op, input, collection, offset, calls, out, resolved, spotifyClient, devices,
                   deviceName, shuffle, targetDevice, playlist, randomOffset>>
    /\ UNCHANGED racevars

\* the playlist metadata is fetched
PlayPlaylistGetPlaylist ==
    /\ op = "PlayPlaylist" /\ pc = "resolved"
    /\ resolved.err = NoError
    /\ calls' = Append(calls, GetPlaylistCall(resolved.id, TRUE))
    /\ playlist' \in Playlists
    /\ pc' = "start"
    /\ UNCHANGED hostvars
    /\ UNCHANGED <<op, input, collection, offset, out, resolved, spotifyClient, devices,
                   deviceName, shuffle, targetDevice, randomOffset, result>>
    /\ UNCHANGED racevars

\* the playlist metadata fetch fails
PlayPlaylistGetPlaylistErr_Continue ==
    /\ op = "PlayPlaylist" /\ pc = "resolved"
    /\ resolved.err = NoError
    /\ calls' = Append(calls, GetPlaylistCall(resolved.id, FALSE))
    /\ playlist' = [Name |-> "", Total |-> 1]
    /\ pc' = "start"
    /\ UNCHANGED hostvars
    /\ UNCHANGED <<op, input, collection, offset, out, resolved, spotifyClient, devices,
                   deviceName, shuffle, targetDevice, randomOffset, result>>
    /\ UNCHANGED racevars
PlayPlaylistGetPlaylistErr ==
    /\ op = "PlayPlaylist" /\ pc = "resolved"
    /\ resolved.err = NoError
    /\ calls' = Append(calls, GetPlaylistCall(resolved.id, FALSE))
    /\ result' = Error("failed to get playlist")
    /\ pc' = "done"
    /\ UNCHANGED hostvars
    /\ UNCHANGED <<op, input, collection, offset, out, resolved, spotifyClient, devices,
                   deviceName, shuffle, targetDevice, playlist, randomOffset>>
    /\ UNCHANGED racevars

\* rand.Intn panics when the playlist has no track
PlayPlaylistIntnPanic ==
    /\ op = "PlayPlaylist" /\ pc = "start"
    /\ shuffle /\ playlist.Total <= 0
    /\ result' = [status |-> "panic", value |-> "invalid argument to Intn"]
    /\ pc' = "done"
    /\ UNCHANGED hostvars
    /\ UNCHANGED <<op, input, collection, offset, calls, out, resolved, spotifyClient, devices,
                   deviceName, shuffle, targetDevice, playlist, randomOffset>>
    /\ UNCHANGED racevars

\* shuffle: a random offset is drawn and the play command is issued with it
PlayPlaylistShufflePlay_IgnoreErr ==
    /\ op = "PlayPlaylist" /\ pc = "start"
    /\ shuffle /\ playlist.Total > 0
    /\ \E r \in Intn(playlist.Total), ok \in BOOLEAN :
        /\ randomOffset' = r
        /\ calls' = Append(calls, PlayOptCall(devices[targetDevice].ID, resolved.id, r, ok))
        /\ pc' = "shuffle" /\ UNCHANGED result
    /\ UNCHANGED hostvars
    /\ UNCHANGED <<op, input, collection, offset, out, resolved, spotifyClient, devices,
                   deviceName, shuffle, targetDevice, playlist>>
    /\ UNCHANGED racevars
PlayPlaylistShufflePlay ==
    /\ op = "PlayPlaylist" /\ pc = "start"
    /\ shuffle /\ playlist.Total > 0
    /\ \E r \in Intn(playlist.Total), ok \in BOOLEAN :
        /\ randomOffset' = r
        /\ calls' = Append(calls, PlayOptCall(devices[targetDevice].ID, resolved.id, r, ok))
        /\ IF ok
           THEN pc' = "shuffle" /\ UNCHANGED result
           ELSE pc' = "done" /\ result' = Error("failed to start playback")
    /\ UNCHANGED hostvars
    /\ UNCHANGED <<op, input, collection, offset, out, resolved, spotifyClient, devices,
                   deviceName, shuffle, targetDevice, playlist>>
    /\ UNCHANGED racevars

\* after the settling delay shuffle is switched on; a failure is only logged
PlayPlaylistShuffle_Fatal ==
    /\ op = "PlayPlaylist" /\ pc = "shuffle"
    /\ \E ok \in BOOLEAN :
        /\ calls' = Append(calls, ShuffleCall(TRUE, ok))
        /\ result' = IF ok
                     THEN Success(ShuffleMessage(playlist.Name, devices[targetDevice].Name,
                                                 randomOffset, playlist.Total))
                     ELSE Error("failed to enable shuffle")
    /\ pc' = "done"
    /\ UNCHANGED hostvars
    /\ UNCHANGED <<op, input, collection, offset, out, resolved, spotifyClient, devices,
                   deviceName, shuffle, targetDevice, playlist, randomOffset>>
    /\ UNCHANGED racevars
PlayPlaylistShuffle ==
    /\ op = "PlayPlaylist" /\ pc = "shuffle"
    /\ \E ok \in BOOLEAN :
        /\ calls' = Append(calls, ShuffleCall(TRUE, ok))
        /\ out' = IF ok THEN out ELSE Append(out, <<"Warning: Failed to enable shuffle">>)
    /\ result' = Success(ShuffleMessage(playlist.Name, devices[targetDevice].Name,
                                        randomOffset, playlist.Total))
    /\ pc' = "done"
    /\ UNCHANGED hostvars
    /\ UNCHANGED <<op, input, collection, offset, resolved, spotifyClient, devices,
                   deviceName, shuffle, targetDevice, playlist, randomOffset>>
    /\ UNCHANGED racevars

\* no shuffle: the play command is issued with position 0
PlayPlaylistPlay_FromOne ==
    /\ op = "PlayPlaylist" /\ pc = "start"
    /\ ~shuffle
    /\ \E ok \in BOOLEAN :
        /\ calls' = Append(calls, PlayOptCall(devices[targetDevice].ID, resolved.id, 1, ok))
        /\ result' = IF ok
                     THEN Success(PlainMessage(playlist.Name, devices[targetDevice].Name))
                     ELSE Error("failed to start playback")
    /\ pc' = "done"
    /\ UNCHANGED hostvars
    /\ UNCHANGED <<op, input, collection, offset, out, resolved, spotifyClient, devices,
                   deviceName, shuffle, targetDevice, playlist, randomOffset>>
    /\ UNCHANGED racevars
PlayPlaylistPlay ==
    /\ op = "PlayPlaylist" /\ pc = "start"
    /\ ~shuffle
    /\ \E ok \in BOOLEAN :
        /\ calls' = Append(calls, PlayOptCall(devices[targetDevice].ID, resolved.id, 0, ok))
        /\ result' = IF ok
                     THEN Success(PlainMessage(playlist.Name, devices[targetDevice].Name))
                     ELSE Error("failed to start playback")
    /\ pc' = "done"
    /\ UNCHANGED hostvars
    /\ UNCHANGED <<op, input, collection, offset, out, resolved, spotifyClient, devices,
                   deviceName, shuffle, targetDevice, playlist, randomOffset>>
    /\ UNCHANGED racevars

\* PausePlayback without a session handle
PausePlaybackNoClient ==
    /\ op = "PausePlayback" /\ pc = "pause"
    /\ spotifyClient = "nil"
    /\ result' = Error(NotAuthenticated)
    /\ pc' = "done"
    /\ UNCHANGED hostvars
    /\ UNCHANGED <<op, input, collection, offset, calls, out, resolved, spotifyClient, devices,
                   deviceName, shuffle, targetDevice, playlist, randomOffset>>
    /\ UNCHANGED racevars

\* the pause command succeeds
PausePlaybackOK ==
    /\ op = "PausePlayback" /\ pc = "pause"
    /\ spotifyClient # "nil"
    /\ calls' = Append(calls, PauseCall(TRUE))
    /\ result' = Success("Playback paused")
    /\ pc' = "done"
    /\ UNCHANGED hostvars
    /\ UNCHANGED <<op, input, collection, offset, out, resolved, spotifyClient, devices,
                   deviceName, shuffle, targetDevice, playlist, randomOffset>>
    /\ UNCHANGED racevars

\* the pause command fails
PausePlaybackErr_Swallowed ==
    /\ op = "PausePlayback" /\ pc = "pause"
    /\ spotifyClient # "nil"
    /\ calls' = Append(calls, PauseCall(FALSE))
    /\ result' = Success("Playback paused")
    /\ pc' = "done"
    /\ UNCHANGED hostvars
    /\ UNCHANGED <<op, input, collection, offset, out, resolved, spotifyClient, devices,
                   deviceName, shuffle, targetDevice, playlist, randomOffset>>
    /\ UNCHANGED racevars
PausePlaybackErr ==
    /\ op = "PausePlayback" /\ pc = "pause"
    /\ spotifyClient # "nil"
    /\ calls' = Append(calls, PauseCall(FALSE))
    /\ result' = Error("failed to pause playback")
    /\ pc' = "done"
    /\ UNCHANGED hostvars
    /\ UNCHANGED <<op, input, collection, offset, out, resolved, spotifyClient, devices,
                   deviceName, shuffle, targetDevice, playlist, randomOffset>>
    /\ UNCHANGED racevars

----------------------------------------------------------------------------
(* The command-line play path (package main): runCLIMode fetches the device *)
(* list and hands it to handlePlayPlaylist; log.Fatal ends the process.     *)

\* runCLIMode fetches the device list and, with -devices, prints it and returns; otherwise
\* handlePlayPlaylist selects the target
runCLIModeDevices_IgnoreFlag ==
    /\ op = "handlePlayPlaylist" /\ pc = "play"
    /\ calls' = Append(calls, DevicesCall(TRUE))
    /\ IF Len(devices) = 0
       THEN /\ result' = Fatal("No Spotify Connect devices found. Make sure a device is active.")
            /\ pc' = "done"
            /\ UNCHANGED <<targetDevice, out>>
       ELSE /\ targetDevice' = SelectDeviceCLI(devices, deviceName)
            /\ out' = Append(out, <<"Using device", devices[SelectDeviceCLI(devices, deviceName)].Name>>)
            /\ pc' = "resolve"
            /\ UNCHANGED result
    /\ UNCHANGED hostvars
    /\ UNCHANGED <<op, input, collection, offset, resolved, spotifyClient, devices,
                   deviceName, shuffle, playlist, randomOffset>>
    /\ UNCHANGED racevars
runCLIModeDevices ==
    /\ op = "handlePlayPlaylist" /\ pc = "play"
    /\ calls' = Append(calls, DevicesCall(TRUE))
    /\ IF Len(devices) = 0
       THEN /\ result' = Fatal("No Spotify Connect devices found. Make sure a device is active.")
            /\ pc' = "done"
            /\ UNCHANGED <<targetDevice, out>>
       ELSE IF flags.devices
       THEN /\ out' = Append(out, <<"PrintDevicesTable", devices>>)
            /\ result' = Success(<<>>)
            /\ pc' = "done"
            /\ UNCHANGED targetDevice
       ELSE /\ targetDevice' = SelectDeviceCLI(devices, deviceName)
            /\ out' = Append(out, <<"Using device", devices[SelectDeviceCLI(devices, deviceName)].Name>>)
            /\ pc' = "resolve"
            /\ UNCHANGED result
    /\ UNCHANGED hostvars
    /\ UNCHANGED <<op, input, collection, offset, resolved, spotifyClient, devices,
                   deviceName, shuffle, playlist, randomOffset>>
    /\ UNCHANGED racevars

\* the device list fetch fails
runCLIModeDevicesErr ==
    /\ op = "handlePlayPlaylist" /\ pc = "play"
    /\ calls' = Append(calls, DevicesCall(FALSE))
    /\ result' = Fatal("Failed to get devices")
    /\ pc' = "done"
    /\ UNCHANGED hostvars
    /\ UNCHANGED <<op, input, collection, offset, out, resolved, spotifyClient, devices,
                   deviceName, shuffle, targetDevice, playlist, randomOffset>>
    /\ UNCHANGED racevars

\* the resolver returned an error
handlePlayPlaylistResolveErr ==
    /\ op = "handlePlayPlaylist" /\ pc = "resolved"
    /\ resolved.err # NoError
    /\ result' = Fatal("Failed to resolve playlist")
    /\ pc' = "done"
    /\ UNCHANGED hostvars
    /\ UNCHANGED <<op, input, collection, offset, calls, out, resolved, spotifyClient, devices,
                   deviceName, shuffle, targetDevice, playlist, randomOffset>>
    /\ UNCHANGED racevars

\* the playlist metadata is fetched
handlePlayPlaylistGetPlaylist ==
    /\ op = "handlePlayPlaylist" /\ pc = "resolved"
    /\ resolved.err = NoError
    /\ calls' = Append(calls, GetPlaylistCall(resolved.id, TRUE))
    /\ playlist' \in Playlists
    /\ pc' = "start"
    /\ UNCHANGED hostvars
    /\ UNCHANGED <<op, input, collection, offset, out, resolved, spotifyClient, devices,
                   deviceName, shuffle, targetDevice, randomOffset, result>>
    /\ UNCHANGED racevars

\* the playlist metadata fetch fails
handlePlayPlaylistGetPlaylistErr ==
    /\ op = "handlePlayPlaylist" /\ pc = "resolved"
    /\ resolved.err = NoError
    /\ calls' = Append(calls, GetPlaylistCall(resolved.id, FALSE))
    /\ result' = Fatal("Failed to get playlist")
    /\ pc' = "done"
    /\ UNCHANGED hostvars
    /\ UNCHANGED <<op, input, collection, offset, out, resolved, spotifyClient, devices,
                   deviceName, shuffle, targetDevice, playlist, randomOffset>>
    /\ UNCHANGED racevars

\* rand.Intn panics when the playlist has no track
handlePlayPlaylistIntnPanic ==
    /\ op = "handlePlayPlaylist" /\ pc = "start"
    /\ shuffle /\ playlist.Total <= 0
    /\ result' = [status |-> "panic", value |-> "invalid argument to Intn"]
    /\ pc' = "done"
    /\ UNCHANGED hostvars
    /\ UNCHANGED <<op, input, collection, offset, calls, out, resolved, spotifyClient, devices,
                   deviceName, shuffle, targetDevice, playlist, randomOffset>>
    /\ UNCHANGED racevars

\* shuffle: a random offset is drawn, the play command is issued and the start is reported
handlePlayPlaylistShufflePlay ==
    /\ op = "handlePlayPlaylist" /\ pc = "start"
    /\ shuffle /\ playlist.Total > 0
    /\ \E r \in Intn(playlist.Total), ok \in BOOLEAN :
        /\ randomOffset' = r
        /\ calls' = Append(calls, PlayOptCall(devices[targetDevice].ID, resolved.id, r, ok))
        /\ IF ok
           THEN /\ out' = Append(out, <<"Now playing playlist", playlist.Name, "on",
                                        devices[targetDevice].Name, "starting at track",
                                        r + 1, "of", playlist.Total>>)
                /\ pc' = "shuffle"
                /\ UNCHANGED result
           ELSE /\ result' = Fatal("Failed to start playback")
                /\ pc' = "done"
                /\ UNCHANGED out
    /\ UNCHANGED hostvars
    /\ UNCHANGED <<op, input, collection, offset, resolved, spotifyClient, devices,
                   deviceName, shuffle, targetDevice, playlist>>
    /\ UNCHANGED racevars

\* after the settling delay shuffle is switched on; a failure is only logged
handlePlayPlaylistShuffle ==
    /\ op = "handlePlayPlaylist" /\ pc = "shuffle"
    /\ \E ok \in BOOLEAN :
        /\ calls' = Append(calls, ShuffleCall(TRUE, ok))
        /\ out' = IF ok THEN Append(out, <<"Shuffle mode enabled">>)
                        ELSE Append(out, <<"Warning: Failed to enable shuffle">>)
    /\ result' = Success(<<>>)
    /\ pc' = "done"
    /\ UNCHANGED hostvars
    /\ UNCHANGED <<op, input, collection, offset, resolved, spotifyClient, devices,
                   deviceName, shuffle, targetDevice, playlist, randomOffset>>
    /\ UNCHANGED racevars

\* no shuffle: the play command is issued with position 0
handlePlayPlaylistPlay ==
    /\ op = "handlePlayPlaylist" /\ pc = "start"
    /\ ~shuffle
    /\ \E ok \in BOOLEAN :
        /\ calls' = Append(calls, PlayOptCall(devices[targetDevice].ID, resolved.id, 0, ok))
        /\ IF ok
           THEN /\ out' = Append(out, <<"Now playing playlist", playlist.Name, "on",
                                        devices[targetDevice].Name, "starting at track 1">>)
                /\ result' = Success(<<>>)
           ELSE /\ result' = Fatal("Failed to start playback")
                /\ UNCHANGED out
    /\ pc' = "done"
    /\ UNCHANGED hostvars
    /\ UNCHANGED <<op, input, collection, offset, resolved, spotifyClient, devices,
                   deviceName, shuffle, targetDevice, playlist, randomOffset>>
    /\ UNCHANGED racevars

----------------------------------------------------------------------------
(* Inputs and remote states the resolver is run on *)

\* "xxxxxxxxxxxxxxxxxxxxx", 21 bytes that occur in no marker
Filler == [i \in 1..(IDLen - 1) |-> "x"]

Pieces == {Marker, Sep, Question, Space, <<"a">>, Filler}

RECURSIVE Concat(_)
Concat(ps) == IF ps = <<>> THEN <<>> ELSE Head(ps) \o Concat(Tail(ps))

\* the playlist inputs: every concatenation of at most MaxPieces pieces
Inputs == {Concat(ps) : ps \in UNION {[1..k -> Pieces] : k \in 0..MaxPieces}}

\* playlist summaries the remote service may hold: one named like the input "a" up to case,
\* one whose ID is "a", and one that matches no input
ByName == [ID |-> <<"1">>, Name |-> <<"A">>]
ByID == [ID |-> <<"a">>, Name |-> <<"b">>]
Other == [ID |-> <<"4">>, Name |-> <<"z">>]

\* a full page of entries that match no input
FullPage == [i \in 1..PageLimit |-> Other]

Blocks == {<<ByName>>, <<ByID>>, <<Other>>, FullPage}

\* the user's playlist collections: every concatenation of at most MaxBlocks blocks
Collections == {Concat(bs) : bs \in UNION {[1..k -> Blocks] : k \in 0..MaxBlocks}}

NoResolved == [id |-> <<>>, err |-> "unset"]
NoPlaylist == [Name |-> "", Total |-> 0]
NoResult == [status |-> "none", value |-> ""]
NoRequest == [path |-> "none"]
NoResponse == [status |-> 0]
NoFile == [exists |-> FALSE, content |-> <<>>]
NoToken == [AccessToken |-> "", TokenType |-> "", RefreshToken |-> "", Expiry |-> 0]
NoFlags == [credentials |-> TRUE, server |-> FALSE, playlists |-> FALSE, pause |-> FALSE,
            devices |-> FALSE, playlist |-> <<>>]

\* the process state of a bare call of the resolver, of PlayPlaylist or of PausePlayback
NoHost ==
    /\ request = NoRequest
    /\ response = NoResponse
    /\ apiAccessToken = <<>>
    /\ file = NoFile
    /\ live = NoToken
    /\ flags = NoFlags

\* the state when one of the two resolvers is called on its own
InitResolve ==
    /\ op \in {"ResolvePlaylistID", "ResolvePlaylistIDQuiet"}
    /\ pc = "resolve"
    /\ input \in Inputs
    /\ collection \in Collections
    /\ offset = 0
    /\ calls = <<>>
    /\ out = <<>>
    /\ resolved = NoResolved
    /\ spotifyClient = "client"
    /\ devices = <<>>
    /\ deviceName = ""
    /\ shuffle = FALSE
    /\ targetDevice = 0
    /\ playlist = NoPlaylist
    /\ randomOffset = 0
    /\ result = NoResult
    /\ NoHost
    /\ client = "nil" /\ concurrent = <<>>

NextResolve ==
    \/ ResolvePlaylistIDQuietEnter
    \/ ResolvePlaylistIDQuietPage
    \/ ResolvePlaylistIDQuietPageErr
    \/ ResolvePlaylistIDEnter
    \/ ResolvePlaylistIDPage
    \/ ResolvePlaylistIDPageErr

SpecResolve == InitResolve /\ [][NextResolve]_vars

----------------------------------------------------------------------------
(* Inputs and remote states play and pause are run on *)

\* a link, a bare ID, a name that the collection may hold, and a name it does not hold
PlayInputs == {Marker \o <<"a">>, Filler \o <<"a">>, <<"a">>, <<" ">>}

PlayCollections == {<<>>, <<ByName>>, FullPage \o <<ByID>>}

\* two devices of one name, and one whose ID is that name; each active or not
DeviceSet ==
    [ID : {"dev1"}, Name : {"Kitchen"}, Type : {"Speaker"}, Active : BOOLEAN] \cup
    [ID : {"dev2"}, Name : {"Kitchen"}, Type : {"Speaker"}, Active : BOOLEAN] \cup
    [ID : {"Kitchen"}, Name : {"Den"}, Type : {"Speaker"}, Active : BOOLEAN]

DeviceLists == UNION {[1..n -> DeviceSet] : n \in 0..MaxDevices}

\* no hint, a hint that names devices, and a hint that differs from them by case only
Hints == {"", "Kitchen", "kitchen"}

\* the state when PlayPlaylist, PausePlayback or the command-line play path is entered
Init ==
    /\ op \in {"PlayPlaylist", "handlePlayPlaylist", "PausePlayback"}
    /\ pc = IF op = "PausePlayback" THEN "pause" ELSE "play"
    /\ spotifyClient \in IF op = "handlePlayPlaylist" THEN {"client"} ELSE {"nil", "client"}
    /\ input \in IF op = "PausePlayback" THEN {<<>>} ELSE PlayInputs
    /\ collection \in IF op = "PausePlayback" THEN {<<>>} ELSE PlayCollections
    /\ devices \in IF op = "PausePlayback" THEN {<<>>} ELSE DeviceLists
    /\ deviceName \in IF op = "PausePlayback" THEN {""} ELSE Hints
    /\ shuffle \in IF op = "PausePlayback" THEN {FALSE} ELSE BOOLEAN
    /\ offset = 0
    /\ calls = <<>>
    /\ out = <<>>
    /\ resolved = NoResolved
    /\ targetDevice = 0
    /\ playlist = NoPlaylist
    /\ randomOffset = 0
    /\ result = NoResult
    /\ NoHost
    /\ client = "nil" /\ concurrent = <<>>

Next ==
    \/ ResolvePlaylistIDQuietEnter
    \/ ResolvePlaylistIDQuietPage
    \/ ResolvePlaylistIDQuietPageErr
    \/ ResolvePlaylistIDEnter
    \/ ResolvePlaylistIDPage
    \/ ResolvePlaylistIDPageErr
    \/ PlayPlaylistNoClient
    \/ PlayPlaylistDevices
    \/ PlayPlaylistDevicesErr
    \/ PlayPlaylistResolveErr
    \/ PlayPlaylistGetPlaylist
    \/ PlayPlaylistGetPlaylistErr
    \/ PlayPlaylistIntnPanic
    \/ PlayPlaylistShufflePlay
    \/ PlayPlaylistShuffle
    \/ PlayPlaylistPlay
    \/ PausePlaybackNoClient
    \/ PausePlaybackOK
    \/ PausePlaybackErr
    \/ runCLIModeDevices
    \/ runCLIModeDevicesErr
    \/ handlePlayPlaylistResolveErr
    \/ handlePlayPlaylistGetPlaylist
    \/ handlePlayPlaylistGetPlaylistErr
    \/ handlePlayPlaylistIntnPanic
    \/ handlePlayPlaylistShufflePlay
    \/ handlePlayPlaylistShuffle
    \/ handlePlayPlaylistPlay

Spec == Init /\ [][Next]_vars

----------------------------------------------------------------------------
(* Properties of the resolver, checked under SpecResolve *)

Returned == pc = "resolved"

\* the input takes the link path
IsLink == Contains(input, Marker)

\* the input takes the name-search path
NameSearch == ~Contains(input, Marker) /\ ~(Len(input) = IDLen /\ ~Contains(input, Space))

\* the text of s before the first position at which one of the stops occurs
Before(s, stops) ==
    LET cuts == {i \in 1..Len(s) : \E st \in stops : MatchAt(s, st, i)}
    IN  IF cuts = {} THEN s ELSE SubSeq(s, 1, Min(cuts) - 1)

\* the text of the input after its first "/playlist/"
AfterSep == From(input, Index(input, Sep) + Len(Sep))

\* C1 as stated: for an input with the link marker the resolver returns the text between
\* "/playlist/" and the first "?" (or the end of the input), with no error and no lister call.
C1_Original ==
    (Returned /\ IsLink) =>
        /\ resolved.err = NoError
        /\ calls = <<>>
        /\ resolved.id = Before(AfterSep, {Question})

\* C1 amended: for an input with the link marker the resolver returns the text between the
\* first "/playlist/" and whichever comes first of the next "/playlist/", the next "?" and the
\* end of the input, with no error and no lister call, whatever the collection contains.
C1_LinkSegment ==
    (Returned /\ IsLink) =>
        /\ resolved.err = NoError
        /\ calls = <<>>
        /\ resolved.id = Before(AfterSep, {Question, Sep})

\* a link with a query has been resolved to a non-empty ID
C1_Witness ==
    /\ Returned /\ IsLink
    /\ Contains(AfterSep, Question)
    /\ resolved.id # <<>>
    /\ collection # <<>>

\* C2 as stated: every input of exactly 22 characters without a space is returned unchanged,
\* with no error and no lister call.
C2_Original ==
    (Returned /\ Len(input) = IDLen /\ ~Contains(input, Space)) =>
        /\ resolved = [id |-> input, err |-> NoError]
        /\ calls = <<>>

\* C2 amended: every input of exactly 22 bytes without a space that does not contain the link
\* marker is returned unchanged, with no error and no lister call.
C2_BareID ==
    (Returned /\ Len(input) = IDLen /\ ~Contains(input, Space) /\ ~IsLink) =>
        /\ resolved = [id |-> input, err |-> NoError]
        /\ calls = <<>>

\* a 22-byte input without space and without marker has been resolved, the collection not empty
C2_Witness ==
    /\ Returned /\ Len(input) = IDLen /\ ~Contains(input, Space) /\ ~IsLink
    /\ resolved.id = input
    /\ collection # <<>>

\* every page fetch issued so far succeeded
AllFetchesOK == \A k \in 1..Len(calls) : calls[k].ok

\* the positions of the collection whose entry matches the input by name or by ID
Matching == {i \in 1..Len(collection) :
                EqualFold(collection[i].Name, input) \/ collection[i].ID = input}

\* the number of the page that holds position i of the collection
PageOf(i) == ((i - 1) \div PageLimit) + 1

\* C3: on the name-search path, when no fetch fails and some entry matches, the resolver
\* returns the ID of the first matching entry in listed order and has fetched exactly the
\* pages up to the one holding that entry.
C3_FirstMatchWins ==
    (Returned /\ NameSearch /\ AllFetchesOK /\ Matching # {}) =>
        /\ resolved = [id |-> collection[Min(Matching)].ID, err |-> NoError]
        /\ Len(calls) = PageOf(Min(Matching))

\* a search has returned the first of several matching entries, found on a later page
C3_Witness ==
    /\ Returned /\ NameSearch /\ AllFetchesOK
    /\ Cardinality(Matching) > 1
    /\ \E i \in Matching : collection[i].ID # collection[Min(Matching)].ID
    /\ Len(calls) > 1
    /\ resolved.id = collection[Min(Matching)].ID

\* C4: on the name-search path, when no fetch fails and no entry matches, the resolver
\* returns the input unchanged with no error, after fetching every page of the collection.
C4_FallbackToInput ==
    (Returned /\ NameSearch /\ AllFetchesOK /\ Matching = {}) =>
        /\ resolved = [id |-> input, err |-> NoError]
        /\ Len(calls) * PageLimit > Len(collection)

\* a search over a collection of several pages has fallen back to the input
C4_Witness ==
    /\ Returned /\ NameSearch /\ AllFetchesOK /\ Matching = {}
    /\ Len(collection) >= PageLimit
    /\ resolved.id = input
    /\ input # <<>>

\* C5: a failed page fetch, the first or a later one, is the last fetch of the resolution,
\* which returns an error and no ID.
C5_FetchErrorAborts ==
    \A k \in 1..Len(calls) :
        (calls[k].op = "CurrentUsersPlaylists" /\ ~calls[k].ok) =>
            /\ k = Len(calls)
            /\ Returned
            /\ resolved.err # NoError
            /\ resolved.id = <<>>

\* the fetch of a later page has failed
C5_Witness ==
    /\ Returned
    /\ Len(calls) > 1
    /\ ~calls[Len(calls)].ok
    /\ resolved.err # NoError

----------------------------------------------------------------------------
(* Properties of device selection, pause and play, checked under Spec *)

Playing == op \in {"PlayPlaylist", "handlePlayPlaylist"}

\* the play commands issued so far
PlayCommands == {k \in 1..Len(calls) : calls[k].op = "PlayOpt"}

\* the listed devices whose name or ID equals the non-empty hint
HintHits == {i \in 1..Len(devices) :
                deviceName # "" /\ (devices[i].Name = deviceName \/ devices[i].ID = deviceName)}

\* the listed devices whose active flag is set
ActiveOnes == {i \in 1..Len(devices) : devices[i].Active}

\* C6: when the hint is non-empty and some listed device has that name or ID, the play
\* command targets the first such device in listed order, on the service path and on the
\* command-line path alike.
C6_FirstHintMatch ==
    (Playing /\ HintHits # {}) =>
        \A k \in PlayCommands : calls[k].arg.DeviceID = devices[Min(HintHits)].ID

\* C7: when the hint is empty or equals no listed device's name or ID, the selected device,
\* and the one the play command targets, is the first active device in listed order, and the
\* first device of the list when none is active.
C7_ActiveElseFirst ==
    (Playing /\ HintHits = {} /\ targetDevice # 0) =>
        /\ targetDevice = (IF ActiveOnes # {} THEN Min(ActiveOnes) ELSE 1)
        /\ \A k \in PlayCommands : calls[k].arg.DeviceID = devices[targetDevice].ID

\* a play command went to the second device, the only active one, the hint matching none
C7_Witness ==
    /\ Playing /\ deviceName # "" /\ HintHits = {}
    /\ ActiveOnes = {2}
    /\ PlayCommands # {}
    /\ \A k \in PlayCommands : calls[k].arg.DeviceID = devices[2].ID
    /\ devices[1].ID # devices[2].ID

\* C8: pause without a session handle returns the unauthenticated error and issues no
\* remote call; with one it issues exactly one pause command and returns "Playback paused"
\* exactly when that command succeeded, an error otherwise.
C8_Pause ==
    (op = "PausePlayback" /\ pc = "done") =>
        IF spotifyClient = "nil"
        THEN /\ calls = <<>>
             /\ result = [status |-> "error",
                          value |-> "Spotify not authenticated. Visit /auth to authenticate"]
        ELSE /\ Len(calls) = 1
             /\ calls[1].op = "Pause"
             /\ (result = [status |-> "ok", value |-> "Playback paused"]) <=> calls[1].ok
             /\ ~calls[1].ok => result.status = "error"

\* a pause whose command failed has returned
C8_Witness ==
    /\ op = "PausePlayback" /\ pc = "done"
    /\ Len(calls) = 1 /\ ~calls[1].ok
    /\ result.status = "error"

\* C9: once the device list has been fetched and is empty, play has ended with a "no
\* devices" error and the device list fetch is the only remote call of the invocation.
C9_NoDevices ==
    (Playing /\ Len(calls) >= 1 /\ calls[1].op = "PlayerDevices" /\ calls[1].ok
       /\ devices = <<>>) =>
        /\ pc = "done"
        /\ result.status \in {"error", "fatal"}
        /\ result.value \in {"no Spotify Connect devices found",
                             "No Spotify Connect devices found. Make sure a device is active."}
        /\ Len(calls) = 1

\* the service play of a playlist name, shuffle requested, has ended on an empty device list
C9_Witness ==
    /\ op = "PlayPlaylist" /\ pc = "done"
    /\ Len(calls) = 1 /\ calls[1].op = "PlayerDevices" /\ calls[1].ok
    /\ devices = <<>>
    /\ input = <<"a">> /\ collection # <<>> /\ shuffle
    /\ result.status = "error"

\* C10: with shuffle requested, the starting position of every play command lies in
\* [0, track_count), and the message PlayPlaylist returns reports that position plus 1 as
\* the track and track_count as the total.
C10_ShuffleOffset ==
    (Playing /\ shuffle) =>
        \A k \in PlayCommands :
            /\ calls[k].arg.Position >= 0
            /\ calls[k].arg.Position < playlist.Total
            /\ (op = "PlayPlaylist" /\ result.status = "ok") =>
                   /\ result.value[6] = calls[k].arg.Position + 1
                   /\ result.value[8] = playlist.Total

\* a shuffled service play has returned, having started at the last track of several
C10_Witness ==
    /\ op = "PlayPlaylist" /\ shuffle /\ result.status = "ok"
    /\ playlist.Total > 1
    /\ \E k \in PlayCommands : calls[k].arg.Position = playlist.Total - 1
    /\ result.value[6] = playlist.Total

----------------------------------------------------------------------------
(* Properties of the start-then-shuffle protocol *)

\* the shuffle commands issued so far
ShuffleCommands == {k \in 1..Len(calls) : calls[k].op = "Shuffle"}

FailedCalls == {k \in 1..Len(calls) : ~calls[k].ok}

\* C12: a finished play whose shuffle command failed reports success (PlayPlaylist: the
\* same status message as with a successful shuffle command) and has logged the failure
\* as a warning; a failure of any other remote call makes play end with an error.
C12_ShuffleFailureIsWarning ==
    (Playing /\ pc = "done") =>
        \A k \in FailedCalls :
            IF calls[k].op = "Shuffle"
            THEN /\ result.status = "ok"
                 /\ \E i \in 1..Len(out) : out[i] = <<"Warning: Failed to enable shuffle">>
                 /\ op = "PlayPlaylist" =>
                        result.value = <<"Now playing", playlist.Name, "on",
                                         devices[targetDevice].Name,
                                         "shuffle enabled, starting at track",
                                         randomOffset + 1, "of", playlist.Total>>
            ELSE result.status \in {"error", "fatal"}

\* a service play has returned success although its shuffle command failed
C12_Witness ==
    /\ op = "PlayPlaylist" /\ pc = "done"
    /\ \E k \in FailedCalls : calls[k].op = "Shuffle"
    /\ result.status = "ok"

\* C13: play without shuffle issues no shuffle command and at most one play command, with
\* position 0 on the selected device; when it ends in success it has issued exactly one
\* play command, which succeeded, and PlayPlaylist's message names the playlist and the
\* device and says "starting at track 1".
C13_PlainPlay ==
    (Playing /\ ~shuffle) =>
        /\ ShuffleCommands = {}
        /\ Cardinality(PlayCommands) <= 1
        /\ \A k \in PlayCommands :
            /\ calls[k].arg.Position = 0
            /\ calls[k].arg.DeviceID = devices[targetDevice].ID
        /\ result.status = "ok" =>
            /\ \E k \in PlayCommands : calls[k].ok
            /\ op = "PlayPlaylist" =>
                   result.value = <<"Now playing", playlist.Name, "on",
                                    devices[targetDevice].Name, "starting at track 1">>

\* a service play without shuffle has returned success on the second listed device
C13_Witness ==
    /\ op = "PlayPlaylist" /\ ~shuffle /\ result.status = "ok"
    /\ targetDevice = 2
    /\ Cardinality(PlayCommands) = 1

----------------------------------------------------------------------------
(* Service mode (package spotify, server.go): one request at a time *)

\* the variables of one play or pause invocation, apart from its remote calls and result
playvars == <<input, collection, offset, resolved, devices, deviceName, shuffle,
              targetDevice, playlist, randomOffset>>

\* strings.TrimPrefix
TrimPrefix(s, prefix) ==
    IF Len(s) >= Len(prefix) /\ SubSeq(s, 1, Len(prefix)) = prefix
    THEN SubSeq(s, Len(prefix) + 1, Len(s))
    ELSE s

\* strings.ToLower on ASCII strings
ToLower(s) == [i \in 1..Len(s) |-> Fold(s[i])]

Bearer == <<"B", "e", "a", "r", "e", "r", " ">>
True == <<"t", "r", "u", "e">>

\* the token a handler compares with the configured one: the query parameter, and the
\* Authorization header without a leading "Bearer " only when the parameter is empty
RequestToken_QueryOnly(r) == r.token
RequestToken(r) ==
    IF r.token = <<>> THEN TrimPrefix(r.authorization, Bearer) ELSE r.token

\* the value of the type APIResponse; a string field is <<>> when empty, else <<text>>
APIResponse(success, message, error) ==
    [Success |-> success, Message |-> message, Error |-> error]

\* json.Encoder.Encode of an APIResponse: fields marked omitempty are left out when empty
EncodeResponse(r) ==
    IF r.Message = <<>> /\ r.Error = <<>> THEN [success |-> r.Success]
    ELSE IF r.Error = <<>> THEN [success |-> r.Success, message |-> r.Message]
    ELSE IF r.Message = <<>> THEN [success |-> r.Success, error |-> r.Error]
    ELSE [success |-> r.Success, message |-> r.Message, error |-> r.Error]

JSONType == "application/json"
TextType == "text/plain"

\* a JSON answer: WriteHeader(status), then the encoded envelope
JSONResponse(status, r) == [status |-> status, ctype |-> JSONType, body |-> EncodeResponse(r)]

\* a plain-text answer
TextResponse(status, text) == [status |-> status, ctype |-> TextType, body |-> text]

\* net/http recovers a panicking handler and closes the connection without an answer
Aborted == [status |-> 0, aborted |-> TRUE]

InvalidToken == <<"Invalid or missing access token">>
PlaylistRequired == <<"playlist parameter is required">>

\* the server is between two requests
Idle == op = "serve" /\ pc = "idle"

\* the handler of the request has been entered and has not answered yet
Handling(path) == op = "serve" /\ pc = "handle" /\ request.path = path

\* the answer is written and the server waits for the next request
Respond(r) ==
    /\ response' = r
    /\ op' = "serve" /\ pc' = "idle"

\* HandleAuthRequest: 401 on a token mismatch, else a redirect to the authorization page
HandleAuthRequest ==
    /\ Handling("/auth")
    /\ Respond(IF RequestToken(request) # apiAccessToken
               THEN TextResponse(401, "Unauthorized: Invalid or missing access token")
               ELSE [status |-> 307, ctype |-> "text/html", body |-> "AuthURL"])
    /\ UNCHANGED playvars
    /\ UNCHANGED <<calls, out, spotifyClient, result, request, apiAccessToken, file, live, flags>>
    /\ UNCHANGED racevars

\* HandlePlayRequest with a token mismatch
HandlePlayRequestUnauthorized ==
    /\ Handling("/api/v1/play")
    /\ RequestToken(request) # apiAccessToken
    /\ Respond(JSONResponse(401, APIResponse(FALSE, <<>>, InvalidToken)))
    /\ UNCHANGED playvars
    /\ UNCHANGED <<calls, out, spotifyClient, result, request, apiAccessToken, file, live, flags>>
    /\ UNCHANGED racevars

\* HandlePlayRequest without a playlist parameter
HandlePlayRequestNoPlaylist_BeforeToken ==
    /\ Handling("/api/v1/play")
    /\ request.playlist = <<>>
    /\ Respond(JSONResponse(400, APIResponse(FALSE, <<>>, PlaylistRequired)))
    /\ UNCHANGED playvars
    /\ UNCHANGED <<calls, out, spotifyClient, result, request, apiAccessToken, file, live, flags>>
    /\ UNCHANGED racevars
HandlePlayRequestNoPlaylist ==
    /\ Handling("/api/v1/play")
    /\ RequestToken(request) = apiAccessToken
    /\ request.playlist = <<>>
    /\ Respond(JSONResponse(400, APIResponse(FALSE, <<>>, PlaylistRequired)))
    /\ UNCHANGED playvars
    /\ UNCHANGED <<calls, out, spotifyClient, result, request, apiAccessToken, file, live, flags>>
    /\ UNCHANGED racevars

\* HandlePlayRequest calls PlayPlaylist with the request's parameters
HandlePlayRequestPlay ==
    /\ Handling("/api/v1/play")
    /\ RequestToken(request) = apiAccessToken
    /\ request.playlist # <<>>
    /\ op' = "PlayPlaylist" /\ pc' = "play"
    /\ deviceName' = request.device
    /\ input' = request.playlist
    /\ shuffle' = (ToLower(request.shuffle) = True)
    /\ UNCHANGED <<collection, offset, resolved, devices, targetDevice, playlist, randomOffset>>
    /\ UNCHANGED <<calls, out, spotifyClient, result, request, response, apiAccessToken, file,
                   live, flags>>
    /\ UNCHANGED racevars

\* PlayPlaylist returned an error: status 500 and the error text
HandlePlayRequestError ==
    /\ op = "PlayPlaylist" /\ pc = "done" /\ request.path = "/api/v1/play"
    /\ result.status = "error"
    /\ Respond(JSONResponse(500, APIResponse(FALSE, <<>>, <<result.value>>)))
    /\ UNCHANGED playvars
    /\ UNCHANGED <<calls, out, spotifyClient, result, request, apiAccessToken, file, live, flags>>
    /\ UNCHANGED racevars

\* PlayPlaylist returned its message: status 200
HandlePlayRequestOK ==
    /\ op = "PlayPlaylist" /\ pc = "done" /\ request.path = "/api/v1/play"
    /\ result.status = "ok"
    /\ Respond(JSONResponse(200, APIResponse(TRUE, <<result.value>>, <<>>)))
    /\ UNCHANGED playvars
    /\ UNCHANGED <<calls, out, spotifyClient, result, request, apiAccessToken, file, live, flags>>
    /\ UNCHANGED racevars

\* PlayPlaylist panicked: the handler is unwound and the connection closed
HandlePlayRequestPanic ==
    /\ op = "PlayPlaylist" /\ pc = "done" /\ request.path = "/api/v1/play"
    /\ result.status = "panic"
    /\ Respond(Aborted)
    /\ UNCHANGED playvars
    /\ UNCHANGED <<calls, out, spotifyClient, result, request, apiAccessToken, file, live, flags>>
    /\ UNCHANGED racevars

\* HandlePauseRequest with a token mismatch
HandlePauseRequestUnauthorized ==
    /\ Handling("/api/v1/pause")
    /\ RequestToken(request) # apiAccessToken
    /\ Respond(JSONResponse(401, APIResponse(FALSE, <<>>, InvalidToken)))
    /\ UNCHANGED playvars
    /\ UNCHANGED <<calls, out, spotifyClient, result, request, apiAccessToken, file, live, flags>>
    /\ UNCHANGED racevars

\* HandlePauseRequest calls PausePlayback
HandlePauseRequestPause ==
    /\ Handling("/api/v1/pause")
    /\ RequestToken(request) = apiAccessToken
    /\ op' = "PausePlayback" /\ pc' = "pause"
    /\ UNCHANGED playvars
    /\ UNCHANGED <<calls, out, spotifyClient, result, request, response, apiAccessToken, file,
                   live, flags>>
    /\ UNCHANGED racevars

\* PausePlayback returned an error: status 500 and the error text
HandlePauseRequestError ==
    /\ op = "PausePlayback" /\ pc = "done" /\ request.path = "/api/v1/pause"
    /\ result.status = "error"
    /\ Respond(JSONResponse(500, APIResponse(FALSE, <<>>, <<result.value>>)))
    /\ UNCHANGED playvars
    /\ UNCHANGED <<calls, out, spotifyClient, result, request, apiAccessToken, file, live, flags>>
    /\ UNCHANGED racevars

\* PausePlayback returned its message: status 200
HandlePauseRequestOK ==
    /\ op = "PausePlayback" /\ pc = "done" /\ request.path = "/api/v1/pause"
    /\ result.status = "ok"
    /\ Respond(JSONResponse(200, APIResponse(TRUE, <<result.value>>, <<>>)))
    /\ UNCHANGED playvars
    /\ UNCHANGED <<calls, out, spotifyClient, result, request, apiAccessToken, file, live, flags>>
    /\ UNCHANGED racevars

----------------------------------------------------------------------------
(* The credential: oauth2.Token, the credential file and the session's client *)

\* json.Encoder.Encode of an oauth2.Token: token_type and refresh_token are marked
\* omitempty and left out when empty
EncodeToken(t) ==
    IF t.TokenType = "" /\ t.RefreshToken = ""
    THEN [access_token |-> t.AccessToken, expiry |-> t.Expiry]
    ELSE IF t.RefreshToken = ""
    THEN [access_token |-> t.AccessToken, token_type |-> t.TokenType, expiry |-> t.Expiry]
    ELSE IF t.TokenType = ""
    THEN [access_token |-> t.AccessToken, refresh_token |-> t.RefreshToken,
          expiry |-> t.Expiry]
    ELSE [access_token |-> t.AccessToken, token_type |-> t.TokenType,
          refresh_token |-> t.RefreshToken, expiry |-> t.Expiry]

\* json.Decoder.Decode into a zero oauth2.Token: a missing key leaves the field empty
DecodeToken(doc) ==
    [AccessToken |-> IF "access_token" \in DOMAIN doc THEN doc.access_token ELSE "",
     TokenType |-> IF "token_type" \in DOMAIN doc THEN doc.token_type ELSE "",
     RefreshToken |-> IF "refresh_token" \in DOMAIN doc THEN doc.refresh_token ELSE "",
     Expiry |-> IF "expiry" \in DOMAIN doc THEN doc.expiry ELSE 0]

\* SaveToken: os.Create truncates the file, Encode writes one document; when Create fails
\* the file is left as it was, when Encode fails nothing has been written
SaveToken_Append(f, token, created, encoded) ==
    IF ~created
    THEN f
    ELSE [exists |-> TRUE,
          content |-> IF encoded THEN f.content \o <<EncodeToken(token)>> ELSE f.content]
SaveToken(f, token, created, encoded) ==
    IF ~created
    THEN f
    ELSE [exists |-> TRUE,
          content |-> IF encoded THEN <<EncodeToken(token)>> ELSE <<>>]

\* what SaveToken logs
SaveTokenLog(created, encoded) ==
    IF ~created THEN <<<<"Warning: Failed to save token">>>>
    ELSE IF ~encoded THEN <<<<"Warning: Failed to encode token">>>>
    ELSE <<>>

\* LoadToken: os.Open fails when there is no file, Decode reads the first document and
\* fails on an empty file
LoadToken(f) ==
    IF ~f.exists \/ f.content = <<>>
    THEN [err |-> "error", token |-> NoToken]
    ELSE [err |-> NoError, token |-> DecodeToken(f.content[1])]

\* the client built from a token (spotifyLib.New(auth.Client(ctx, tok))), identified by
\* the access token it was built from
NewClient(tok) == tok.AccessToken

\* the token obtained when the OAuth client refreshes an expired token
Refreshed(tok) == [tok EXCEPT !.AccessToken = "A9", !.Expiry = @ + 1]

\* the value of the package variable state
State == "spotify-shortcut-state"

ExchangeCall(code, ok) == [op |-> "Exchange", arg |-> <<code>>, ok |-> ok]
CurrentUserCall(ok) == [op |-> "CurrentUser", arg |-> <<>>, ok |-> ok]

\* the tokens the authorization service may hand out
Tokens ==
    {[AccessToken |-> "A1", TokenType |-> "Bearer", RefreshToken |-> "R1", Expiry |-> 1],
     [AccessToken |-> "A2", TokenType |-> "", RefreshToken |-> "", Expiry |-> 1]}

\* HandleAuthCallback: the code is exchanged for a token
HandleAuthCallbackToken ==
    /\ Handling("/callback")
    /\ \E ok \in BOOLEAN, tok \in Tokens :
        /\ calls' = Append(calls, ExchangeCall(request.code, ok))
        /\ IF ok
           THEN /\ result' = Success(tok)
                /\ op' = "HandleAuthCallback" /\ pc' = "state"
                /\ UNCHANGED response
           ELSE /\ Respond(TextResponse(403, "Failed to get token"))
                /\ UNCHANGED result
    /\ UNCHANGED playvars
    /\ UNCHANGED <<out, spotifyClient, request, apiAccessToken, file, live, flags>>
    /\ UNCHANGED racevars

\* HandleAuthCallback: the state of the request is not the expected one
HandleAuthCallbackStateMismatch_AfterSave ==
    /\ op = "HandleAuthCallback" /\ pc = "state"
    /\ request.state # State
    /\ file' = SaveToken(file, result.value, TRUE, TRUE)
    /\ Respond(TextResponse(403, "State mismatch"))
    /\ UNCHANGED playvars
    /\ UNCHANGED <<calls, out, spotifyClient, result, request, apiAccessToken, live, flags>>
    /\ UNCHANGED racevars
HandleAuthCallbackStateMismatch ==
    /\ op = "HandleAuthCallback" /\ pc = "state"
    /\ request.state # State
    /\ Respond(TextResponse(403, "State mismatch"))
    /\ UNCHANGED playvars
    /\ UNCHANGED <<calls, out, spotifyClient, result, request, apiAccessToken, file, live, flags>>
    /\ UNCHANGED racevars

\* HandleAuthCallback: SaveToken(tok); a failure is only logged
HandleAuthCallbackSave_NoSave ==
    /\ op = "HandleAuthCallback" /\ pc = "state"
    /\ request.state = State
    /\ pc' = "install"
    /\ UNCHANGED playvars
    /\ UNCHANGED <<op, calls, out, spotifyClient, result, request, response, apiAccessToken,
                   file, live, flags>>
    /\ UNCHANGED racevars
HandleAuthCallbackSave ==
    /\ op = "HandleAuthCallback" /\ pc = "state"
    /\ request.state = State
    /\ \E created, encoded \in BOOLEAN :
        /\ file' = SaveToken(file, result.value, created, encoded)
        /\ out' = out \o SaveTokenLog(created, encoded)
    /\ pc' = "install"
    /\ UNCHANGED playvars
    /\ UNCHANGED <<op, calls, spotifyClient, result, request, response, apiAccessToken,
                   live, flags>>
    /\ UNCHANGED racevars

\* HandleAuthCallback: the client built from the token is installed and 200 is answered
HandleAuthCallbackInstall_FromFile ==
    /\ op = "HandleAuthCallback" /\ pc = "install"
    /\ spotifyClient' = NewClient(LoadToken(file).token)
    /\ live' = LoadToken(file).token
    /\ Respond(TextResponse(200, "Authentication successful! You can close this window."))
    /\ UNCHANGED playvars
    /\ UNCHANGED <<calls, out, result, request, apiAccessToken, file, flags>>
    /\ UNCHANGED racevars
HandleAuthCallbackInstall ==
    /\ op = "HandleAuthCallback" /\ pc = "install"
    /\ spotifyClient' = NewClient(result.value)
    /\ live' = result.value
    /\ Respond(TextResponse(200, "Authentication successful! You can close this window."))
    /\ UNCHANGED playvars
    /\ UNCHANGED <<calls, out, result, request, apiAccessToken, file, flags>>
    /\ UNCHANGED racevars

\* the session's OAuth client refreshes its expired token before a remote call; the new
\* token stays inside the client
RefreshToken_Persisted ==
    /\ op \in {"PlayPlaylist", "PausePlayback"} /\ pc \in {"play", "pause"}
    /\ spotifyClient # "nil"
    /\ live.RefreshToken # "" /\ live.Expiry < MaxExpiry
    /\ live' = Refreshed(live)
    /\ file' = SaveToken(file, Refreshed(live), TRUE, TRUE)
    /\ UNCHANGED playvars
    /\ UNCHANGED <<op, pc, calls, out, spotifyClient, result, request, response,
                   apiAccessToken, flags>>
    /\ UNCHANGED racevars
RefreshToken ==
    /\ op \in {"PlayPlaylist", "PausePlayback"} /\ pc \in {"play", "pause"}
    /\ spotifyClient # "nil"
    /\ live.RefreshToken # "" /\ live.Expiry < MaxExpiry
    /\ live' = Refreshed(live)
    /\ UNCHANGED playvars
    /\ UNCHANGED <<op, pc, calls, out, spotifyClient, result, request, response,
                   apiAccessToken, file, flags>>
    /\ UNCHANGED racevars

\* runServerMode: no token can be loaded, the server starts without a session
runServerModeNoToken ==
    /\ op = "runServerMode" /\ pc = "boot"
    /\ LoadToken(file).err # NoError
    /\ out' = Append(out, <<"No Spotify token found. Visit /auth to authenticate.">>)
    /\ op' = "serve" /\ pc' = "idle"
    /\ UNCHANGED playvars
    /\ UNCHANGED <<calls, spotifyClient, result, request, response, apiAccessToken, file,
                   live, flags>>
    /\ UNCHANGED racevars

\* runServerMode: the loaded token is verified and, when valid, its client installed
runServerModeVerify_Unverified ==
    /\ op = "runServerMode" /\ pc = "boot"
    /\ LoadToken(file).err = NoError
    /\ \E ok \in BOOLEAN :
        /\ calls' = Append(calls, CurrentUserCall(ok))
        /\ spotifyClient' = NewClient(LoadToken(file).token)
        /\ live' = LoadToken(file).token
        /\ out' = Append(out, <<"Authenticated as:", "user">>)
    /\ op' = "serve" /\ pc' = "idle"
    /\ UNCHANGED playvars
    /\ UNCHANGED <<result, request, response, apiAccessToken, file, flags>>
    /\ UNCHANGED racevars
runServerModeVerify ==
    /\ op = "runServerMode" /\ pc = "boot"
    /\ LoadToken(file).err = NoError
    /\ \E ok \in BOOLEAN :
        /\ calls' = Append(calls, CurrentUserCall(ok))
        /\ IF ok
           THEN /\ spotifyClient' = NewClient(LoadToken(file).token)
                /\ live' = LoadToken(file).token
                /\ out' = Append(out, <<"Authenticated as:", "user">>)
           ELSE /\ out' = Append(out, <<"Existing token expired. Visit /auth to re-authenticate.">>)
                /\ UNCHANGED <<spotifyClient, live>>
    /\ op' = "serve" /\ pc' = "idle"
    /\ UNCHANGED playvars
    /\ UNCHANGED <<result, request, response, apiAccessToken, file, flags>>
    /\ UNCHANGED racevars

----------------------------------------------------------------------------
(* The service: start, then one request after the other *)

\* the configured API access token and a token that differs from it
Secret == <<"s">>
Wrong == <<"w">>

QueryTokens == {<<>>, Secret, Wrong}
Headers == {<<>>, Bearer \o Secret, Bearer \o Wrong, Secret}

\* the playlist parameters, remote collections and device lists of the modelled requests
ServerInputs == {Marker \o <<"a">>, <<"a">>}
ServerCollections == {<<>>, <<ByName>>}
ServerDeviceLists == {d \in DeviceLists : Len(d) <= 1 /\ \A i \in 1..Len(d) : d[i].ID = "dev1"}
ShuffleParams == {<<>>, True, <<"T", "R", "U", "E">>}

TokenRequests ==
    [path : {"/auth", "/api/v1/pause"}, token : QueryTokens, authorization : Headers,
     device : {""}, playlist : {<<>>}, shuffle : {<<>>}, state : {""}, code : {""}]

PlayRequests ==
    [path : {"/api/v1/play"}, token : QueryTokens, authorization : Headers,
     device : {"", "Kitchen"}, playlist : ServerInputs \cup {<<>>}, shuffle : ShuffleParams,
     state : {""}, code : {""}]

CallbackRequests ==
    [path : {"/callback"}, token : {<<>>}, authorization : {<<>>},
     device : {""}, playlist : {<<>>}, shuffle : {<<>>}, state : {State, "other"},
     code : {"code"}]

Requests == TokenRequests \cup PlayRequests \cup CallbackRequests

\* the credential files the server may find when it starts
StartFiles ==
    {NoFile, [exists |-> TRUE, content |-> <<>>]} \cup
    {[exists |-> TRUE, content |-> <<EncodeToken(t)>>] : t \in Tokens}

ServerFlags == [NoFlags EXCEPT !.server = TRUE]

\* the server accepts the next connection; nothing of the last exchange is kept
Accept ==
    /\ Idle
    /\ pc' = "accept"
    /\ request' = NoRequest /\ response' = NoResponse
    /\ collection' = <<>> /\ devices' = <<>>
    /\ input' = <<>> /\ deviceName' = "" /\ shuffle' = FALSE
    /\ offset' = 0 /\ calls' = <<>> /\ out' = <<>>
    /\ resolved' = NoResolved /\ targetDevice' = 0
    /\ playlist' = NoPlaylist /\ randomOffset' = 0
    /\ result' = NoResult
    /\ UNCHANGED <<op, spotifyClient, apiAccessToken, file, live, flags>>
    /\ client' = "nil" /\ UNCHANGED concurrent

\* the mux hands the request to its handler; the remote state is what it is then
Receive ==
    /\ op = "serve" /\ pc = "accept"
    /\ request' \in Requests
    /\ pc' = "handle"
    /\ collection' \in IF request'.path = "/api/v1/play" THEN ServerCollections ELSE {<<>>}
    /\ devices' \in IF request'.path = "/api/v1/play" THEN ServerDeviceLists ELSE {<<>>}
    /\ UNCHANGED <<input, offset, resolved, deviceName, shuffle, targetDevice, playlist,
                   randomOffset>>
    /\ UNCHANGED <<op, calls, out, result, response, spotifyClient, apiAccessToken, file,
                   live, flags>>
    /\ UNCHANGED racevars

\* the state when runServerMode is entered
InitServer ==
    /\ op = "runServerMode" /\ pc = "boot"
    /\ spotifyClient = "nil"
    /\ apiAccessToken = Secret
    /\ file \in StartFiles
    /\ live = NoToken
    /\ flags = ServerFlags
    /\ request = NoRequest /\ response = NoResponse
    /\ input = <<>> /\ collection = <<>> /\ devices = <<>>
    /\ deviceName = "" /\ shuffle = FALSE
    /\ offset = 0 /\ calls = <<>> /\ out = <<>>
    /\ resolved = NoResolved /\ targetDevice = 0
    /\ playlist = NoPlaylist /\ randomOffset = 0
    /\ result = NoResult
    /\ client = "nil" /\ concurrent = <<>>

NextServer ==
    \/ runServerModeNoToken
    \/ runServerModeVerify
    \/ Accept
    \/ Receive
    \/ HandleAuthRequest
    \/ HandleAuthCallbackToken
    \/ HandleAuthCallbackStateMismatch
    \/ HandleAuthCallbackSave
    \/ HandleAuthCallbackInstall
    \/ HandlePlayRequestUnauthorized
    \/ HandlePlayRequestNoPlaylist
    \/ HandlePlayRequestPlay
    \/ HandlePlayRequestError
    \/ HandlePlayRequestOK
    \/ HandlePlayRequestPanic
    \/ HandlePauseRequestUnauthorized
    \/ HandlePauseRequestPause
    \/ HandlePauseRequestError
    \/ HandlePauseRequestOK
    \/ RefreshToken
    \/ ResolvePlaylistIDQuietEnter
    \/ ResolvePlaylistIDQuietPage
    \/ ResolvePlaylistIDQuietPageErr
    \/ PlayPlaylistNoClient
    \/ PlayPlaylistDevices
    \/ PlayPlaylistDevicesErr
    \/ PlayPlaylistResolveErr
    \/ PlayPlaylistGetPlaylist
    \/ PlayPlaylistGetPlaylistErr
    \/ PlayPlaylistIntnPanic
    \/ PlayPlaylistShufflePlay
    \/ PlayPlaylistShuffle
    \/ PlayPlaylistPlay
    \/ PausePlaybackNoClient
    \/ PausePlaybackOK
    \/ PausePlaybackErr

SpecServer == InitServer /\ [][NextServer]_vars

----------------------------------------------------------------------------
(* Properties of the service's handlers *)

\* the request has been answered (or its connection closed) and no other accepted yet
Answered == Idle /\ request # NoRequest

TokenPaths == {"/auth", "/api/v1/play", "/api/v1/pause"}

\* the Authorization header starts with "Bearer "
HasBearer ==
    /\ Len(request.authorization) >= Len(Bearer)
    /\ \A i \in 1..Len(Bearer) : request.authorization[i] = Bearer[i]

\* the Authorization header without one leading "Bearer "
HeaderToken ==
    IF HasBearer
    THEN [i \in 1..(Len(request.authorization) - Len(Bearer)) |->
             request.authorization[i + Len(Bearer)]]
    ELSE request.authorization

\* the request presents the configured token: in the query parameter or, when that is
\* empty, in the header
TokenOK ==
    \/ request.token = apiAccessToken
    \/ request.token = <<>> /\ HeaderToken = apiAccessToken

\* C14 as stated: the two channels are interchangeable, so the configured token on either
\* channel is accepted, a token on either channel that is not the configured one is
\* answered 401, and a 401 comes with no remote call.
C14_Original ==
    (Answered /\ request.path \in TokenPaths) =>
        /\ (request.token = apiAccessToken
            \/ request.authorization = Bearer \o apiAccessToken) => response.status # 401
        /\ ((request.token # <<>> /\ request.token # apiAccessToken)
            \/ (request.authorization # <<>>
                /\ request.authorization # Bearer \o apiAccessToken)) => response.status = 401
        /\ response.status = 401 => calls = <<>>

\* C14, amended: on /auth, /api/v1/play and /api/v1/pause the query parameter token= is
\* compared with the configured token when it is not empty, whatever the header says; the
\* Authorization header, without one leading "Bearer ", is compared only when the
\* parameter is empty. The answer is 401 exactly when the compared token differs, and the
\* 401 step makes no remote call and leaves session handle, live credential and
\* credential file unchanged.
C14_QueryFirst ==
    /\ [](Answered /\ request.path \in TokenPaths =>
            /\ response.status = 401 <=> ~TokenOK
            /\ response.status = 401 => calls = <<>>)
    /\ [][(\E p \in TokenPaths : Handling(p)) /\ response'.status = 401 =>
            /\ calls' = <<>>
            /\ spotifyClient' = spotifyClient /\ live' = live /\ file' = file]_vars

\* a play request with the configured token in the query and another one in the header
\* has been served
C14_Witness ==
    /\ Answered /\ request.path = "/api/v1/play"
    /\ request.token = apiAccessToken /\ request.authorization = Bearer \o Wrong
    /\ response.status = 200

\* C15: a play request without playlist parameter is answered 400 with the JSON body
\* {success:false, error:"playlist parameter is required"} when it presents the
\* configured token and 401 when it does not; either way no remote call is made.
C15_PlaylistRequired ==
    (Answered /\ request.path = "/api/v1/play" /\ request.playlist = <<>>) =>
        /\ calls = <<>>
        /\ IF TokenOK
           THEN /\ response.status = 400
                /\ response.ctype = JSONType
                /\ response.body = [success |-> FALSE,
                                    error |-> <<"playlist parameter is required">>]
           ELSE response.status = 401

\* a play request with the configured token and no playlist parameter has been answered
C15_Witness ==
    /\ Answered /\ request.path = "/api/v1/play" /\ request.playlist = <<>>
    /\ request.token = apiAccessToken
    /\ response.status = 400

\* C16: every play or pause request that is not answered with success is answered with a
\* JSON envelope {success:false, error:<non-empty>} and status 400, 401 or 500.
C16_ErrorEnvelope ==
    (Answered /\ request.path \in {"/api/v1/play", "/api/v1/pause"}
              /\ response.status # 200) =>
        /\ response.status \in {400, 401, 500}
        /\ response.ctype = JSONType
        /\ response.body.success = FALSE
        /\ "error" \in DOMAIN response.body
        /\ response.body.error # <<>>

\* the token the credential file holds, as LoadToken reads it
Persisted == LoadToken(file)

Settled == op \notin {"runServerMode", "HandleAuthCallback"}

----------------------------------------------------------------------------
(* The credential file on its own: saves and loads in any order *)

\* the tokens that are saved
SavedTokens ==
    [AccessToken : {"A1", "A2"}, TokenType : {"", "Bearer"}, RefreshToken : {"", "R1"},
     Expiry : {1}]

SaveTokenCall(token, ok) == [op |-> "SaveToken", arg |-> token, ok |-> ok]

\* SaveToken(token) is called
SaveTokenStep ==
    /\ op = "token"
    /\ Len(calls) < MaxSaves
    /\ \E token \in SavedTokens, created, encoded \in BOOLEAN :
        /\ file' = SaveToken(file, token, created, encoded)
        /\ out' = out \o SaveTokenLog(created, encoded)
        /\ calls' = Append(calls, SaveTokenCall(token, created /\ encoded))
    /\ result' = NoResult
    /\ UNCHANGED playvars
    /\ UNCHANGED <<op, pc, spotifyClient, request, response, apiAccessToken, live, flags>>
    /\ UNCHANGED racevars

\* LoadToken() is called; its client holds the token read from the file
LoadTokenStep ==
    /\ op = "token"
    /\ result' = IF LoadToken(file).err = NoError
                 THEN Success(LoadToken(file).token)
                 ELSE Error("no token")
    /\ UNCHANGED playvars
    /\ UNCHANGED <<op, pc, calls, out, spotifyClient, request, response, apiAccessToken,
                   file, live, flags>>
    /\ UNCHANGED racevars

\* any credential file, nothing saved or loaded yet
InitToken ==
    /\ op = "token" /\ pc = "token"
    /\ file \in StartFiles
    /\ spotifyClient = "nil"
    /\ apiAccessToken = <<>>
    /\ live = NoToken
    /\ flags = NoFlags
    /\ request = NoRequest /\ response = NoResponse
    /\ input = <<>> /\ collection = <<>> /\ devices = <<>>
    /\ deviceName = "" /\ shuffle = FALSE
    /\ offset = 0 /\ calls = <<>> /\ out = <<>>
    /\ resolved = NoResolved /\ targetDevice = 0
    /\ playlist = NoPlaylist /\ randomOffset = 0
    /\ result = NoResult
    /\ client = "nil" /\ concurrent = <<>>

NextToken ==
    \/ SaveTokenStep
    \/ LoadTokenStep

SpecToken == InitToken /\ [][NextToken]_vars

\* C19: after any sequence of saves of which the last one could create and write the
\* file, the file holds one document, which decodes to the token of that last save, and a
\* load then yields that token's access token and refresh token.
C19_SaveLoadRoundTrip ==
    (op = "token" /\ calls # <<>> /\ calls[Len(calls)].ok) =>
        /\ Len(file.content) = 1
        /\ DecodeToken(file.content[1]) = calls[Len(calls)].arg
        /\ result # NoResult =>
            /\ result.status = "ok"
            /\ result.value.AccessToken = calls[Len(calls)].arg.AccessToken
            /\ result.value.RefreshToken = calls[Len(calls)].arg.RefreshToken

\* two different tokens have been saved one after the other and a load has returned the
\* second, one without refresh token
C19_Witness ==
    /\ op = "token" /\ Len(calls) = 2
    /\ calls[1].ok /\ calls[2].ok
    /\ calls[1].arg.AccessToken = "A1" /\ calls[1].arg.RefreshToken = "R1"
    /\ calls[2].arg.AccessToken = "A2" /\ calls[2].arg.RefreshToken = ""
    /\ result.status = "ok" /\ result.value = calls[2].arg

----------------------------------------------------------------------------
(* The program's entry (package main): main, runCLIMode and the modes they select *)

\* main's test that a playlist is required and missing
PlaylistMissing ==
    /\ flags.playlist = <<>>
    /\ ~flags.devices /\ ~flags.playlists /\ ~flags.server /\ ~flags.pause

\* main: the client credentials are missing from the environment
mainNoCredentials ==
    /\ op = "main" /\ pc = "main"
    /\ ~flags.credentials
    /\ result' = Fatal("SPOTIFY_CLIENT_ID and SPOTIFY_CLIENT_SECRET environment variables are required")
    /\ pc' = "done"
    /\ UNCHANGED playvars
    /\ UNCHANGED <<op, calls, out, spotifyClient, request, response, apiAccessToken, file,
                   live, flags>>
    /\ UNCHANGED racevars

\* main: no playlist is given and no other mode is selected
mainNoPlaylist ==
    /\ op = "main" /\ pc = "main"
    /\ flags.credentials
    /\ PlaylistMissing
    /\ result' = Fatal("SPOTIFY_PLAYLIST_ID is required. Use -playlist flag or set in .env")
    /\ pc' = "done"
    /\ UNCHANGED playvars
    /\ UNCHANGED <<op, calls, out, spotifyClient, request, response, apiAccessToken, file,
                   live, flags>>
    /\ UNCHANGED racevars

\* main: server mode without an API access token
mainNoAccessToken ==
    /\ op = "main" /\ pc = "main"
    /\ flags.credentials /\ ~PlaylistMissing
    /\ flags.server /\ apiAccessToken = <<>>
    /\ result' = Fatal("API_ACCESS_TOKEN environment variable is required for server mode")
    /\ pc' = "done"
    /\ UNCHANGED playvars
    /\ UNCHANGED <<op, calls, out, spotifyClient, request, response, apiAccessToken, file,
                   live, flags>>
    /\ UNCHANGED racevars

\* main: -server is set, runServerMode is entered
mainServerMode ==
    /\ op = "main" /\ pc = "main"
    /\ flags.credentials /\ ~PlaylistMissing
    /\ flags.server /\ apiAccessToken # <<>>
    /\ op' = "runServerMode" /\ pc' = "boot"
    /\ UNCHANGED playvars
    /\ UNCHANGED <<calls, out, spotifyClient, result, request, response, apiAccessToken,
                   file, live, flags>>
    /\ UNCHANGED racevars

\* main: runCLIMode is entered
mainCLIMode ==
    /\ op = "main" /\ pc = "main"
    /\ flags.credentials /\ ~PlaylistMissing
    /\ ~flags.server
    /\ op' = "runCLIMode" /\ pc' = "load"
    /\ UNCHANGED playvars
    /\ UNCHANGED <<calls, out, spotifyClient, result, request, response, apiAccessToken,
                   file, live, flags>>
    /\ UNCHANGED racevars

\* runCLIMode: LoadToken; without a usable file the OAuth flow is run
runCLIModeLoadToken ==
    /\ op = "runCLIMode" /\ pc = "load"
    /\ IF LoadToken(file).err = NoError
       THEN live' = LoadToken(file).token /\ pc' = "verify"
       ELSE pc' = "authenticate" /\ UNCHANGED live
    /\ UNCHANGED playvars
    /\ UNCHANGED <<op, calls, out, spotifyClient, result, request, response, apiAccessToken,
                   file, flags>>
    /\ UNCHANGED racevars

\* Authenticate registers its handlers and waits for the callback of the browser
Authenticate ==
    /\ op = "runCLIMode" /\ pc = "authenticate"
    /\ request = NoRequest
    /\ request' \in CallbackRequests
    /\ pc' = "callback"
    /\ UNCHANGED playvars
    /\ UNCHANGED <<op, calls, out, spotifyClient, result, response, apiAccessToken, file,
                   live, flags>>
    /\ UNCHANGED racevars

\* Authenticate called again in the same process: http.HandleFunc panics on the pattern
\* "/callback", which is registered already
AuthenticatePanic ==
    /\ op = "runCLIMode" /\ pc = "authenticate"
    /\ request # NoRequest
    /\ result' = [status |-> "panic", value |-> "http: multiple registrations for /callback"]
    /\ pc' = "done"
    /\ UNCHANGED playvars
    /\ UNCHANGED <<op, calls, out, spotifyClient, request, response, apiAccessToken, file,
                   live, flags>>
    /\ UNCHANGED racevars

\* completeAuth: the code is exchanged for a token; a failure ends the process
completeAuthToken ==
    /\ op = "runCLIMode" /\ pc = "callback"
    /\ \E ok \in BOOLEAN, tok \in Tokens :
        /\ calls' = Append(calls, ExchangeCall(request.code, ok))
        /\ IF ok
           THEN /\ result' = Success(tok)
                /\ pc' = "state"
                /\ UNCHANGED response
           ELSE /\ response' = TextResponse(403, "Couldn't get token")
                /\ result' = Fatal("Couldn't get token")
                /\ pc' = "done"
    /\ UNCHANGED playvars
    /\ UNCHANGED <<op, out, spotifyClient, request, apiAccessToken, file, live, flags>>
    /\ UNCHANGED racevars

\* completeAuth: a state mismatch ends the process
completeAuthStateMismatch ==
    /\ op = "runCLIMode" /\ pc = "state"
    /\ request.state # State
    /\ response' = TextResponse(404, "404 page not found")
    /\ result' = Fatal("State mismatch")
    /\ pc' = "done"
    /\ UNCHANGED playvars
    /\ UNCHANGED <<op, calls, out, spotifyClient, request, apiAccessToken, file, live, flags>>
    /\ UNCHANGED racevars

\* completeAuth: the token is saved and the client built from it handed to Authenticate
completeAuthSave ==
    /\ op = "runCLIMode" /\ pc = "state"
    /\ request.state = State
    /\ \E created, encoded \in BOOLEAN :
        /\ file' = SaveToken(file, result.value, created, encoded)
        /\ out' = out \o SaveTokenLog(created, encoded)
    /\ live' = result.value
    /\ response' = TextResponse(200, "Authentication successful! You can close this window.")
    /\ result' = NoResult
    /\ pc' = "verify"
    /\ UNCHANGED playvars
    /\ UNCHANGED <<op, calls, spotifyClient, request, apiAccessToken, flags>>
    /\ UNCHANGED racevars

\* the current-user calls of this invocation that failed
FailedVerifications == {k \in 1..Len(calls) : calls[k].op = "CurrentUser" /\ ~calls[k].ok}

\* runCLIMode: the client is verified; the first failure runs the OAuth flow again, the
\* second ends the process; on success the client is stored
runCLIModeCurrentUser ==
    /\ op = "runCLIMode" /\ pc = "verify"
    /\ \E ok \in BOOLEAN :
        /\ calls' = Append(calls, CurrentUserCall(ok))
        /\ IF ok
           THEN /\ spotifyClient' = NewClient(live)
                /\ client' = NewClient(live)
                /\ out' = Append(out, <<"Authenticated as:", "user">>)
                /\ pc' = "mode"
                /\ UNCHANGED result
           ELSE IF FailedVerifications = {}
           THEN /\ pc' = "authenticate"
                /\ UNCHANGED <<spotifyClient, client, out, result>>
           ELSE /\ result' = Fatal("Failed to get user info")
                /\ pc' = "done"
                /\ UNCHANGED <<spotifyClient, client, out>>
    /\ UNCHANGED playvars
    /\ UNCHANGED <<op, request, response, apiAccessToken, file, live, flags>>
    /\ UNCHANGED concurrent

\* runCLIMode: -playlists
runCLIModeListPlaylists ==
    /\ op = "runCLIMode" /\ pc = "mode"
    /\ flags.playlists
    /\ op' = "handleListPlaylists" /\ pc' = "page"
    /\ offset' = 0
    /\ UNCHANGED <<input, collection, resolved, devices, deviceName, shuffle, targetDevice,
                   playlist, randomOffset>>
    /\ UNCHANGED <<calls, out, spotifyClient, result>>
    /\ UNCHANGED hostvars
    /\ UNCHANGED racevars

\* one iteration of the loop of handleListPlaylists whose fetch succeeds; after the last
\* page the table is printed
handleListPlaylistsPage ==
    /\ op = "handleListPlaylists" /\ pc = "page"
    /\ calls' = Append(calls, PlaylistsCall(PageLimit, offset, TRUE))
    /\ IF ShortPage(PlaylistPage(PageLimit, offset), PageLimit)
       THEN /\ out' = Append(out, <<"PrintPlaylistsTable", collection>>)
            /\ result' = Success(<<>>)
            /\ pc' = "done"
            /\ UNCHANGED offset
       ELSE /\ offset' = offset + PageLimit
            /\ UNCHANGED <<out, result, pc>>
    /\ UNCHANGED <<input, collection, resolved, devices, deviceName, shuffle, targetDevice,
                   playlist, randomOffset>>
    /\ UNCHANGED <<op, spotifyClient>>
    /\ UNCHANGED hostvars
    /\ UNCHANGED racevars

\* one iteration of the loop of handleListPlaylists whose fetch fails
handleListPlaylistsPageErr ==
    /\ op = "handleListPlaylists" /\ pc = "page"
    /\ calls' = Append(calls, PlaylistsCall(PageLimit, offset, FALSE))
    /\ result' = Fatal("Failed to get playlists")
    /\ pc' = "done"
    /\ UNCHANGED playvars
    /\ UNCHANGED <<op, out, spotifyClient>>
    /\ UNCHANGED hostvars
    /\ UNCHANGED racevars

\* runCLIMode: -pause
runCLIModePause ==
    /\ op = "runCLIMode" /\ pc = "mode"
    /\ ~flags.playlists /\ flags.pause
    /\ op' = "PausePlayback" /\ pc' = "pause"
    /\ UNCHANGED playvars
    /\ UNCHANGED <<calls, out, spotifyClient, result>>
    /\ UNCHANGED hostvars
    /\ UNCHANGED racevars

\* runCLIMode: PausePlayback has returned; its message is printed, its error is fatal
runCLIModePauseResult ==
    /\ op = "PausePlayback" /\ pc = "done"
    /\ flags.pause
    /\ op' = "runCLIMode"
    /\ IF result.status = "ok"
       THEN out' = Append(out, <<result.value>>) /\ UNCHANGED result
       ELSE result' = Fatal("Failed to pause") /\ UNCHANGED out
    /\ UNCHANGED playvars
    /\ UNCHANGED <<pc, calls, spotifyClient>>
    /\ UNCHANGED hostvars
    /\ UNCHANGED racevars

\* runCLIMode: neither -playlists nor -pause; the device list is fetched next
runCLIModePlay ==
    /\ op = "runCLIMode" /\ pc = "mode"
    /\ ~flags.playlists /\ ~flags.pause
    /\ op' = "handlePlayPlaylist" /\ pc' = "play"
    /\ input' = flags.playlist
    /\ UNCHANGED <<collection, offset, resolved, devices, deviceName, shuffle, targetDevice,
                   playlist, randomOffset>>
    /\ UNCHANGED <<calls, out, spotifyClient, result>>
    /\ UNCHANGED hostvars
    /\ UNCHANGED racevars


\* the command lines and environments of the modelled invocations
Flags ==
    [credentials : BOOLEAN, server : BOOLEAN, playlists : BOOLEAN, pause : BOOLEAN,
     devices : BOOLEAN, playlist : {<<>>, Marker \o <<"a">>, <<"a">>}]

MainCollections == {<<>>, <<ByName>>, FullPage}

\* the state when main is entered
InitMain ==
    /\ op = "main" /\ pc = "main"
    /\ flags \in Flags
    /\ apiAccessToken \in {<<>>, Secret}
    /\ file \in StartFiles
    /\ collection \in MainCollections
    /\ devices \in ServerDeviceLists
    /\ shuffle \in BOOLEAN
    /\ deviceName = ""
    /\ spotifyClient = "nil"
    /\ live = NoToken
    /\ request = NoRequest /\ response = NoResponse
    /\ input = <<>>
    /\ offset = 0 /\ calls = <<>> /\ out = <<>>
    /\ resolved = NoResolved /\ targetDevice = 0
    /\ playlist = NoPlaylist /\ randomOffset = 0
    /\ result = NoResult
    /\ client = "nil" /\ concurrent = <<>>

NextMain ==
    \/ mainNoCredentials
    \/ mainNoPlaylist
    \/ mainNoAccessToken
    \/ mainServerMode
    \/ mainCLIMode
    \/ runServerModeNoToken
    \/ runServerModeVerify
    \/ runCLIModeLoadToken
    \/ Authenticate
    \/ AuthenticatePanic
    \/ completeAuthToken
    \/ completeAuthStateMismatch
    \/ completeAuthSave
    \/ runCLIModeCurrentUser
    \/ runCLIModeListPlaylists
    \/ handleListPlaylistsPage
    \/ handleListPlaylistsPageErr
    \/ runCLIModePause
    \/ PausePlaybackOK
    \/ PausePlaybackErr
    \/ runCLIModePauseResult
    \/ runCLIModePlay
    \/ runCLIModeDevices
    \/ runCLIModeDevicesErr
    \/ ResolvePlaylistIDEnter
    \/ ResolvePlaylistIDPage
    \/ ResolvePlaylistIDPageErr
    \/ handlePlayPlaylistResolveErr
    \/ handlePlayPlaylistGetPlaylist
    \/ handlePlayPlaylistGetPlaylistErr
    \/ handlePlayPlaylistIntnPanic
    \/ handlePlayPlaylistShufflePlay
    \/ handlePlayPlaylistShuffle
    \/ handlePlayPlaylistPlay

SpecMain == InitMain /\ [][NextMain]_vars

\* what has been printed so far starts with one of these words
Output(head) == \E i \in 1..Len(out) : out[i][1] = head

\* a remote call of one of these kinds has been issued
Called(kinds) == \E k \in 1..Len(calls) : calls[k].op \in kinds

\* the modes of which the invocation has carried out an action so far
Performed ==
    {m \in {"serve", "playlists", "pause", "devices", "play"} :
        \/ m = "serve" /\ op \in {"runServerMode", "serve"}
        \/ m = "playlists" /\ (op = "handleListPlaylists" \/ Output("PrintPlaylistsTable"))
        \/ m = "pause" /\ (op = "PausePlayback" \/ Called({"Pause"}))
        \/ m = "devices" /\ Output("PrintDevicesTable")
        \/ m = "play" /\ (Output("Using device") \/ Called({"GetPlaylist", "PlayOpt", "Shuffle"}))}

\* the invocation has come to its normal end: it serves, or it has returned without a
\* fatal error
Completed == op = "serve" \/ (pc = "done" /\ result.status = "ok")

\* C20: an invocation never carries out actions of two modes; when it comes to its normal
\* end it has carried out exactly one; the mode carried out is serve, list playlists,
\* pause or list devices only if its flag is set and play only if none of the four flags
\* is; so no play command is issued when one of the four flags is set.
C20_OneMode ==
    /\ Cardinality(Performed) <= 1
    /\ Completed => Cardinality(Performed) = 1
    /\ "serve" \in Performed => flags.server
    /\ "playlists" \in Performed => flags.playlists
    /\ "pause" \in Performed => flags.pause
    /\ "devices" \in Performed => flags.devices
    /\ "play" \in Performed =>
           ~(flags.server \/ flags.playlists \/ flags.pause \/ flags.devices)
    /\ (flags.server \/ flags.playlists \/ flags.pause \/ flags.devices) =>
           ~Called({"PlayOpt", "Shuffle"})

\* an invocation with -devices and -playlist has printed the device table and returned
C20_Witness ==
    /\ op = "handlePlayPlaylist" /\ pc = "done" /\ result.status = "ok"
    /\ flags.devices /\ flags.playlist # <<>>
    /\ Performed = {"devices"}

----------------------------------------------------------------------------
(* The two resolvers compared, checked under SpecResolve *)

\* the offset of the page fetch that failed in this run, -1 when none has failed
FailedOffset ==
    LET failed == {k \in 1..Len(calls) : ~calls[k].ok}
    IN  IF failed = {} THEN 0 - 1 ELSE calls[Min(failed)].arg[2]

\* the loop of ResolvePlaylistIDQuiet run to its return from offset off, against a lister
\* that fails the fetch at offset fail: the returned pair and the fetches issued on the way
RECURSIVE ResolvePlaylistIDQuietLoop(_, _, _)
ResolvePlaylistIDQuietLoop(in, off, fail) ==
    IF off = fail
    THEN [id |-> <<>>, err |-> "failed to get playlists",
          fetches |-> <<PlaylistsCall(PageLimit, off, FALSE)>>]
    ELSE LET page == PlaylistPage(PageLimit, off)
             k == ScanPage(page, in)
             fetch == PlaylistsCall(PageLimit, off, TRUE)
         IN  IF k > 0
             THEN [id |-> EntryResult(page[k], in), err |-> NoError, fetches |-> <<fetch>>]
             ELSE IF ShortPage(page, PageLimit)
             THEN [id |-> in, err |-> NoError, fetches |-> <<fetch>>]
             ELSE LET rest == ResolvePlaylistIDQuietLoop(in, off + PageLimit, fail)
                  IN  [rest EXCEPT !.fetches = <<fetch>> \o @]

\* ResolvePlaylistIDQuiet as a function of the input and the lister's behaviour
ResolvePlaylistIDQuiet(in, fail) ==
    IF Contains(in, Marker)
    THEN [id |-> ExtractPlaylistID(in), err |-> NoError, fetches |-> <<>>]
    ELSE IF LooksLikeID(in)
    THEN [id |-> in, err |-> NoError, fetches |-> <<>>]
    ELSE ResolvePlaylistIDQuietLoop(in, 0, fail)

\* C21: on the same input and the same lister behaviour (the same collection, the same
\* fetch failing or none) the narrating resolver and the silent resolver return the same
\* ID or both fail, and issue the same sequence of page fetches; the silent one prints
\* nothing, so the two differ in diagnostic text only.
C21_ResolversAgree ==
    Returned =>
        LET quiet == ResolvePlaylistIDQuiet(input, FailedOffset)
        IN  /\ resolved = [id |-> quiet.id, err |-> quiet.err]
            /\ calls = quiet.fetches
            /\ (op = "ResolvePlaylistIDQuiet" => out = <<>>)

\* the narrating resolver has found a playlist by name on a later page and said so
C21_Witness ==
    /\ op = "ResolvePlaylistID" /\ Returned
    /\ Len(calls) > 1 /\ AllFetchesOK
    /\ Matching # {}
    /\ out # <<>>
    /\ resolved.id = ResolvePlaylistIDQuiet(input, FailedOffset).id
    /\ resolved.id # input

----------------------------------------------------------------------------
(* The remote calls of one play invocation, checked under Spec *)

\* the place of a remote call in the body of PlayPlaylist
Step(c) ==
    CASE c.op = "PlayerDevices" -> 1
      [] c.op = "CurrentUsersPlaylists" -> 2
      [] c.op = "GetPlaylist" -> 3
      [] c.op = "PlayOpt" -> 4
      [] c.op = "Shuffle" -> 5
      [] OTHER -> 0

\* the calls of the invocation that are of the given kind
CallsOf(kind) == {k \in 1..Len(calls) : calls[k].op = kind}

\* a device of the fetched list has been selected
DeviceSelected == targetDevice \in 1..Len(devices)

\* C22: the remote calls of a play invocation come in the order device list fetch, page
\* fetches (name search only), metadata fetch, play command, shuffle command (shuffle
\* only), none of them skipped on the way; success is reported only after a play command
\* that succeeded; the device is selected before the playlist is resolved.
C22_CallOrder ==
    Playing =>
        /\ \A k \in 1..Len(calls) : Step(calls[k]) > 0
        /\ Len(calls) > 0 => Step(calls[1]) = 1
        /\ \A k \in 2..Len(calls) :
            \/ Step(calls[k]) = Step(calls[k - 1]) + 1
            \/ Step(calls[k]) = 2 /\ Step(calls[k - 1]) = 2
            \/ Step(calls[k]) = 3 /\ Step(calls[k - 1]) = 1
        /\ CallsOf("CurrentUsersPlaylists") # {} => NameSearch
        /\ (NameSearch /\ CallsOf("GetPlaylist") # {}) => CallsOf("CurrentUsersPlaylists") # {}
        /\ CallsOf("Shuffle") # {} => shuffle
        /\ result.status = "ok" =>
            /\ \E k \in CallsOf("PlayOpt") : calls[k].ok
            /\ shuffle => CallsOf("Shuffle") # {}
        /\ (resolved # NoResolved \/ pc \in {"resolve", "page", "resolved"}) => DeviceSelected

\* a shuffled service play by name over two pages has ended in success
C22_Witness ==
    /\ op = "PlayPlaylist" /\ pc = "done" /\ result.status = "ok"
    /\ shuffle /\ NameSearch
    /\ Cardinality(CallsOf("CurrentUsersPlaylists")) = 2
    /\ Len(calls) = 6
    /\ calls[6].op = "Shuffle"

\* the kinds of remote call whose failure ends a play invocation
Decisive == {"PlayerDevices", "CurrentUsersPlaylists", "GetPlaylist", "PlayOpt"}

\* C23: play is one-shot.  Without a session handle it returns an error with no remote
\* call.  A failed device list fetch, page fetch, metadata fetch or play command is the
\* last remote call of the invocation, which returns an error in the same step (for a page
\* fetch: the resolver returns its error, and play then returns its own).  No call is
\* repeated: the device list fetch, the metadata fetch, the play command and the shuffle
\* command are each issued at most once, and no two page fetches are the same.
C23_OneShot ==
    Playing =>
        /\ spotifyClient = "nil" =>
            /\ calls = <<>>
            /\ pc = "done" => result = Error(NotAuthenticated)
        /\ \A k \in FailedCalls :
            calls[k].op \in Decisive =>
                /\ k = Len(calls)
                /\ \/ pc = "done" /\ result.status \in {"error", "fatal"}
                   \/ /\ calls[k].op = "CurrentUsersPlaylists"
                      /\ pc = "resolved" /\ resolved.err # NoError /\ result = NoResult
        /\ \A kind \in {"PlayerDevices", "GetPlaylist", "PlayOpt", "Shuffle"} :
            Cardinality(CallsOf(kind)) <= 1
        /\ \A j, k \in 1..Len(calls) : calls[j] = calls[k] => j = k

\* a service play has ended with an error on the failure of its metadata fetch, the last
\* of its remote calls, after a search over two pages
C23_Witness ==
    /\ op = "PlayPlaylist" /\ pc = "done" /\ result = Error("failed to get playlist")
    /\ Len(calls) = 4
    /\ calls[4].op = "GetPlaylist" /\ ~calls[4].ok
    /\ Cardinality(CallsOf("CurrentUsersPlaylists")) = 2

----------------------------------------------------------------------------
(* Paging, checked under SpecResolve *)

\* the positions of the collection that the k-th fetch of the run asks for
Window(k) ==
    {i \in 1..Len(collection) :
        calls[k].arg[2] < i /\ i <= calls[k].arg[2] + calls[k].arg[1]}

\* the page the k-th fetch of the run was answered with
Fetched(k) == PlaylistPage(calls[k].arg[1], calls[k].arg[2])

\* C24: the k-th page fetch of a resolution asks for 50 entries at offset 50*(k-1), so
\* that the fetched windows are disjoint and together a prefix of the collection; every
\* fetch before the last succeeded and returned a full page without a match, and a
\* resolution that returned after a successful last fetch got a match or a short page
\* there; over N entries without a match and without a failure exactly N div 50 + 1
\* fetches are issued (the last one empty when N is a multiple of 50) and every entry
\* has been fetched.
C24_Paging ==
    /\ \A k \in 1..Len(calls) :
        /\ calls[k].op = "CurrentUsersPlaylists"
        /\ calls[k].arg = <<PageLimit, PageLimit * (k - 1)>>
        /\ UNION {Window(j) : j \in 1..k} =
               {i \in 1..Len(collection) : i <= PageLimit * k}
    /\ \A j, k \in 1..Len(calls) : j # k => Window(j) \cap Window(k) = {}
    /\ \A k \in 1..(Len(calls) - 1) :
        /\ calls[k].ok
        /\ Len(Fetched(k)) = PageLimit
        /\ ScanPage(Fetched(k), input) = 0
    /\ (Returned /\ calls # <<>> /\ calls[Len(calls)].ok) =>
        \/ ScanPage(Fetched(Len(calls)), input) > 0
        \/ Len(Fetched(Len(calls))) < PageLimit
    /\ (Returned /\ NameSearch /\ AllFetchesOK /\ Matching = {}) =>
        /\ Len(calls) = (Len(collection) \div PageLimit) + 1
        /\ UNION {Window(k) : k \in 1..Len(calls)} = 1..Len(collection)
        /\ Len(collection) % PageLimit = 0 => Fetched(Len(calls)) = <<>>

\* the silent resolver has run through a collection of exactly two full pages without a
\* match: three fetches, the last one empty
C24_Witness ==
    /\ op = "ResolvePlaylistIDQuiet" /\ Returned /\ NameSearch /\ AllFetchesOK
    /\ Matching = {}
    /\ Len(collection) = 2 * PageLimit
    /\ Len(calls) = 3
    /\ calls[3].arg = <<PageLimit, 2 * PageLimit>>
    /\ Fetched(3) = <<>>

----------------------------------------------------------------------------
(* Termination.  Every step of the model is a stretch of straight-line code *)
(* around one remote call; a remote call that returns lets the step happen, *)
(* which is weak fairness of the next-step relation.                        *)

SpecFair == Init /\ [][Next]_vars /\ WF_vars(Next)

\* the invocation has ended with a success or an error result
Finished == pc = "done" /\ result.status \in {"ok", "error", "fatal"}

\* C25: a play or pause invocation whose remote calls all return reaches a final success
\* or error result.
C25_Terminates == <>Finished

\* the invocation has ended in the panic of rand.Intn on a playlist without tracks
Panicked == pc = "done" /\ result.status = "panic" /\ shuffle /\ playlist.Total = 0

\* every invocation ends, and with a result unless rand.Intn panicked
TerminatesUnlessPanic == <>(Finished \/ Panicked)

----------------------------------------------------------------------------
(* The rejected callback, checked under SpecServer *)

\* the token exchange of the /callback request being handled has failed
ExchangeFailed == \E k \in 1..Len(calls) : calls[k].op = "Exchange" /\ ~calls[k].ok

\* the server is at work on a /callback request
InCallback == request.path = "/callback" /\ pc \in {"handle", "state", "install"}

\* C26: a /callback request whose token exchange fails or whose state is not the expected
\* one is answered 403, and no step of its handling changes the credential file, the
\* session handle or the session's credential.
C26_RejectedCallbackFrame ==
    /\ [](Answered /\ request.path = "/callback" /\ (ExchangeFailed \/ request.state # State)
            => response.status = 403)
    /\ [][(InCallback /\ (request.state # State \/ response'.status = 403))
            => UNCHANGED <<file, spotifyClient, live>>]_vars

\* with a session installed and its token on file, a /callback with a wrong state has been
\* answered 403 after its token exchange succeeded; session and file are those of before
C26_Witness ==
    /\ Answered /\ request.path = "/callback" /\ request.state # State
    /\ response.status = 403
    /\ calls # <<>> /\ calls[1].op = "Exchange" /\ calls[1].ok
    /\ spotifyClient = "A1"
    /\ Persisted.err = NoError /\ Persisted.token = live
    /\ result.value # live

----------------------------------------------------------------------------
(* The session handle in service mode, checked under SpecServer *)

\* a play or pause invocation is past its authentication check
PastCheck ==
    /\ op \in {"PlayPlaylist", "PausePlayback"}
    /\ \/ pc \in {"resolve", "page", "resolved", "start", "shuffle"}
       \/ calls # <<>>

\* C28: in service mode the session handle becomes present only by a start-up check that
\* succeeded or by a /callback answered 200; once present it is never absent again; a
\* play or pause that has passed its authentication check has a session handle for the
\* rest of the invocation.
C28_HandlePresence ==
    /\ [][(spotifyClient = "nil" /\ spotifyClient' # "nil") =>
            \/ /\ op = "runServerMode"
               /\ calls'[Len(calls')] = CurrentUserCall(TRUE)
            \/ /\ op = "HandleAuthCallback" /\ pc = "install"
               /\ response'.status = 200]_vars
    /\ [][spotifyClient # "nil" => spotifyClient' # "nil"]_vars
    /\ [](op = "runServerMode" => spotifyClient = "nil")
    /\ [](PastCheck => spotifyClient # "nil")

\* a play is past its authentication check in a server that found no credential file
\* and still has none: its session handle was installed by a /callback
C28_Witness ==
    /\ op = "PlayPlaylist" /\ PastCheck /\ Len(calls) > 1
    /\ spotifyClient = "A2"
    /\ ~file.exists

----------------------------------------------------------------------------
(* Re-authentication on the command line, checked under SpecMain *)

\* the OAuth flow has got as far as its token exchange after the remote call k
FlowAfter(k) == \E j \in 1..Len(calls) : j > k /\ calls[j].op = "Exchange"

\* C27: on the command line, whenever the current-user call has failed the program runs
\* the OAuth flow again: it is about to enter the flow, waits for the callback, or the
\* flow's token exchange has taken place since; also when the failed client came from an
\* OAuth flow of the same invocation.
C27_Reauthenticates ==
    (~flags.server /\ FailedVerifications # {}) =>
        \/ pc \in {"authenticate", "callback"}
        \/ FlowAfter(Min(FailedVerifications))

----------------------------------------------------------------------------
(* Service mode with overlapping requests.  net/http runs every handler on  *)
(* a goroutine of its own; the handlers share the package variable          *)
(* spotifyClient and the credential file without any lock.  The request in  *)
(* hand is handled by the steps above; beside it run up to MaxOthers        *)
(* /callback handlers, each a record [pc, token, status].                   *)

Others == 1..MaxOthers

\* a /callback handler that has not been started
NoCallback == [pc |-> "idle", token |-> NoToken, status |-> 0]

\* the token the exchange of the c-th concurrent callback yields
OtherToken(c) ==
    [AccessToken |-> <<"B1", "B2", "B3">>[c], TokenType |-> "Bearer", RefreshToken |-> "R1",
     Expiry |-> 1]

\* the server has a request in hand or has answered it
Serving == pc # "accept"

\* HandleAuthCallback on another goroutine: the code is exchanged for a token
ConcurrentAuthCallbackToken(c) ==
    /\ Serving
    /\ concurrent[c].pc = "idle"
    /\ \E ok \in BOOLEAN :
        concurrent' = [concurrent EXCEPT ![c] =
                          IF ok THEN [pc |-> "state", token |-> OtherToken(c), status |-> 0]
                                ELSE [pc |-> "done", token |-> NoToken, status |-> 403]]
    /\ UNCHANGED playvars
    /\ UNCHANGED <<op, pc, calls, out, spotifyClient, result, request, response,
                   apiAccessToken, file, live, flags, client>>

\* HandleAuthCallback on another goroutine: SaveToken(tok)
ConcurrentAuthCallbackSave(c) ==
    /\ concurrent[c].pc = "state"
    /\ \E created, encoded \in BOOLEAN :
        /\ file' = SaveToken(file, concurrent[c].token, created, encoded)
        /\ out' = out \o SaveTokenLog(created, encoded)
    /\ concurrent' = [concurrent EXCEPT ![c].pc = "install"]
    /\ UNCHANGED playvars
    /\ UNCHANGED <<op, pc, calls, spotifyClient, result, request, response,
                   apiAccessToken, live, flags, client>>

\* HandleAuthCallback on another goroutine: the store of the first client over nil has
\* written the type word
ConcurrentAuthCallbackStore(c) ==
    /\ concurrent[c].pc = "install"
    /\ spotifyClient \in {"nil", Torn}
    /\ spotifyClient' = Torn
    /\ concurrent' = [concurrent EXCEPT ![c].pc = "store"]
    /\ UNCHANGED playvars
    /\ UNCHANGED <<op, pc, calls, out, result, request, response,
                   apiAccessToken, file, live, flags, client>>

\* HandleAuthCallback on another goroutine: the client built from the token is installed
\* (over an earlier client: one pointer store) and 200 is answered
ConcurrentAuthCallbackInstall(c) ==
    /\ \/ concurrent[c].pc = "store"
       \/ concurrent[c].pc = "install" /\ spotifyClient \notin {"nil", Torn}
    /\ spotifyClient' = NewClient(concurrent[c].token)
    /\ live' = concurrent[c].token
    /\ concurrent' = [concurrent EXCEPT ![c].pc = "done", ![c].status = 200]
    /\ UNCHANGED playvars
    /\ UNCHANGED <<op, pc, calls, out, result, request, response,
                   apiAccessToken, file, flags, client>>

\* PlayPlaylist found the half-stored handle not nil and calls PlayerDevices on its nil
\* pointer: a nil dereference panics
PlayPlaylistTorn ==
    /\ op = "PlayPlaylist" /\ pc = "play"
    /\ spotifyClient = Torn
    /\ result' = [status |-> "panic", value |-> "nil pointer dereference"]
    /\ pc' = "done"
    /\ UNCHANGED hostvars
    /\ UNCHANGED <<op, input, collection, offset, calls, out, resolved, spotifyClient, devices,
                   deviceName, shuffle, targetDevice, playlist, randomOffset>>
    /\ UNCHANGED racevars

\* the requests taken in hand while callbacks run beside them
OverlappedRequests ==
    {r \in PlayRequests : /\ r.token = Secret /\ r.authorization = <<>>
                          /\ r.playlist # <<>> /\ r.device = ""
                          /\ r.shuffle \in {<<>>, True}}
        \cup CallbackRequests

ReceiveOverlapped == Receive /\ request' \in OverlappedRequests

\* the sessions the server may have when the request arrives: none, or the one of a token
\* that is on file
Sessions ==
    {[handle |-> "nil", token |-> NoToken, file |-> NoFile]} \cup
    {[handle |-> NewClient(t), token |-> t,
      file |-> [exists |-> TRUE, content |-> <<EncodeToken(t)>>]] :
        t \in {u \in Tokens : u.AccessToken = "A1"}}

\* the server has accepted a connection; no other handler has been started yet
InitRace ==
    /\ op = "serve" /\ pc = "accept"
    /\ \E s \in Sessions : spotifyClient = s.handle /\ live = s.token /\ file = s.file
    /\ apiAccessToken = Secret
    /\ flags = ServerFlags
    /\ request = NoRequest /\ response = NoResponse
    /\ input = <<>> /\ collection = <<>> /\ devices = <<>>
    /\ deviceName = "" /\ shuffle = FALSE
    /\ offset = 0 /\ calls = <<>> /\ out = <<>>
    /\ resolved = NoResolved /\ targetDevice = 0
    /\ playlist = NoPlaylist /\ randomOffset = 0
    /\ result = NoResult
    /\ client = "nil"
    /\ concurrent = [c \in Others |-> NoCallback]

NextRace ==
    \/ ReceiveOverlapped
    \/ HandleAuthCallbackToken
    \/ HandleAuthCallbackStateMismatch
    \/ HandleAuthCallbackSave
    \/ HandleAuthCallbackInstall
    \/ HandlePlayRequestPlay
    \/ HandlePlayRequestError
    \/ HandlePlayRequestOK
    \/ HandlePlayRequestPanic
    \/ ResolvePlaylistIDQuietEnter
    \/ ResolvePlaylistIDQuietPage
    \/ ResolvePlaylistIDQuietPageErr
    \/ PlayPlaylistNoClient
    \/ PlayPlaylistTorn
    \/ PlayPlaylistDevices
    \/ PlayPlaylistDevicesErr
    \/ PlayPlaylistResolveErr
    \/ PlayPlaylistGetPlaylist
    \/ PlayPlaylistGetPlaylistErr
    \/ PlayPlaylistIntnPanic
    \/ PlayPlaylistShufflePlay
    \/ PlayPlaylistShuffle
    \/ PlayPlaylistPlay
    \/ \E c \in Others : ConcurrentAuthCallbackToken(c)
    \/ \E c \in Others : ConcurrentAuthCallbackSave(c)
    \/ \E c \in Others : ConcurrentAuthCallbackStore(c)
    \/ \E c \in Others : ConcurrentAuthCallbackInstall(c)

SpecRace == InitRace /\ [][NextRace]_vars

----------------------------------------------------------------------------
(* Properties of overlapping requests, checked under SpecRace *)

\* the request in hand is a play request
InPlay == request.path = "/api/v1/play"

\* a concurrent callback has installed its client
Installed(c) == concurrent[c].pc = "done" /\ concurrent[c].status = 200

\* C29 as stated: all remote calls of a play invocation are issued on one and the same
\* session handle, whatever a concurrent /callback does.
C29_Original ==
    InPlay => \A j, k \in 1..Len(calls) : calls[j].client = calls[k].client

\* C29, amended: each remote call of a play invocation is issued on the session handle
\* that is installed at the moment of the call, the page fetches of a name search on the
\* handle installed when the resolver was entered; never on an absent or half-stored one.
\* The handles of an invocation change only forward, and they are all the handle seen by
\* the authentication check as long as no concurrent /callback has installed its client.
C29_HandleAtCall ==
    /\ [][(InPlay /\ Len(calls') = Len(calls) + 1) =>
            LET c == calls'[Len(calls')]
            IN  /\ c.client = IF c.op = "CurrentUsersPlaylists" THEN client ELSE spotifyClient
                /\ c.client \notin {"nil", Torn}]_vars
    /\ [][(InPlay /\ pc = "resolve" /\ pc' # "resolve") => client' = spotifyClient]_vars
    /\ [](InPlay => \A i, j, k \in 1..Len(calls) :
                        (i < j /\ j < k /\ calls[i].client = calls[k].client)
                            => calls[j].client = calls[i].client)
    /\ []((InPlay /\ \A c \in Others : ~Installed(c)) =>
            \A k \in 1..Len(calls) : calls[k].client = spotifyClient)

\* a play by name has been answered 200 after it fetched the device list and the page on
\* the old handle and issued the later calls on the handle of a concurrent /callback
C29_Witness ==
    /\ InPlay /\ Answered /\ response.status = 200
    /\ Len(calls) >= 4
    /\ calls[1].client = "A1"
    /\ calls[2].op = "CurrentUsersPlaylists" /\ calls[2].client = "A1"
    /\ calls[3].op = "GetPlaylist" /\ calls[3].client = "B1"
    /\ calls[Len(calls)].client = "B1"

\* the request in hand is a /callback that has been answered 200
CallbackAnswered == Answered /\ request.path = "/callback" /\ response.status = 200

\* the concurrent callback never got as far as SaveToken
Untouched(c) == concurrent[c].pc = "idle" \/ concurrent[c].status = 403

\* the tokens obtained by the callbacks that were answered 200
Obtained ==
    {concurrent[c].token : c \in {d \in Others : Installed(d)}}
        \cup (IF CallbackAnswered THEN {result.value} ELSE {})

\* C30 as stated: once concurrent successful /callback requests have all completed (none
\* of them with a SaveToken warning), the token in the credential file is the token the
\* installed session handle was built from.
C30_Original ==
    (CallbackAnswered /\ out = <<>> /\ \A c \in Others : Installed(c)) =>
        Persisted.err = NoError /\ Persisted.token = live

\* C30, amended: the file is written only by the SaveToken step of a callback, which
\* unless it logs a warning leaves that callback's token there; the session handle is
\* stored only by the install step of a callback, which builds it from that callback's
\* token and leaves the file alone.  So once concurrent successful callbacks have all
\* completed without a warning, the file holds the token of one of them (the last to
\* save) and the handle is built from the token of one of them (the last to install);
\* these are the same token when the callback ran alone.
C30_LastSaveLastInstall ==
    /\ [][file' # file =>
            \/ /\ op = "HandleAuthCallback" /\ pc = "state"
               /\ out' = out => (LoadToken(file').err = NoError
                                 /\ LoadToken(file').token = result.value)
            \/ \E c \in Others :
                /\ concurrent[c].pc = "state" /\ concurrent'[c].pc = "install"
                /\ out' = out => (LoadToken(file').err = NoError
                                  /\ LoadToken(file').token = concurrent[c].token)]_vars
    /\ [][(spotifyClient' # spotifyClient \/ live' # live) =>
            /\ file' = file
            /\ \/ /\ op = "HandleAuthCallback" /\ pc = "install"
                  /\ live' = result.value /\ spotifyClient' = NewClient(live')
               \/ \E c \in Others :
                   /\ concurrent[c].pc \in {"install", "store"} /\ concurrent'[c].pc = "done"
                   /\ live' = concurrent[c].token /\ spotifyClient' = NewClient(live')
               \/ \E c \in Others :
                   /\ concurrent[c].pc = "install" /\ concurrent'[c].pc = "store"
                   /\ live' = live /\ spotifyClient' = Torn]_vars
    /\ []((out = <<>> /\ Obtained # {}
            /\ (request.path = "/callback" => Answered)
            /\ \A c \in Others : Installed(c) \/ Untouched(c)) =>
                /\ Persisted.err = NoError
                /\ Persisted.token \in Obtained
                /\ live \in Obtained
                /\ spotifyClient = NewClient(live)
                /\ Cardinality(Obtained) = 1 => Persisted.token = live)

\* two overlapping callbacks have both been answered 200 without a warning; the file holds
\* the token of the one, the session handle is built from the token of the other
C30_Witness ==
    /\ CallbackAnswered /\ out = <<>>
    /\ \A c \in Others : Installed(c)
    /\ Persisted.err = NoError
    /\ Persisted.token = concurrent[1].token
    /\ live = result.value
    /\ spotifyClient = NewClient(result.value)
    /\ Persisted.token # live

====
